---- MODULE Spec2Model ----
(***************************************************************************)
(* Model of the PlexClient of plex-history-report                          *)
(* (plex_history_report/plex_client.py): get_available_users,              *)
(* get_all_show_statistics, _get_show_statistics,                          *)
(* get_all_movie_statistics, _get_movie_statistics,                        *)
(* get_recently_watched_shows, get_recently_watched_movies and the         *)
(* data_recorder hook; and of get_media_statistics                         *)
(* (plex_history_report/cli.py).                                           *)
(*                                                                         *)
(* The Plex server is the environment: its catalog (library sections,      *)
(* shows, episodes, movies), its history and its account are chosen in     *)
(* Init and never change.  Python floats are modelled by exact rationals   *)
(* [num, den] in lowest terms; timestamps by integers (years).             *)
(***************************************************************************)
EXTENDS Integers, Sequences, FiniteSets, TLC

\* Bounds of the model.
MaxTitles == 2
MaxEpisodes == 2
MaxRecords == 3
MaxSortTitles == 3
MaxFeed == 4
MaxLimit == 2
MaxUsers == 2
MaxCalls == 2
MaxWindow == 2

-----------------------------------------------------------------------------
\* Python values.  An attribute of a server object is one of:
\*   Absent   hasattr(obj, name) is False
\*   NoneV    the attribute is None
\*   Raises   reading the attribute (or calling the method) raises
\*   Val(v)   the attribute holds v
Absent == [tag |-> "absent"]
NoneV == [tag |-> "none"]
Raises == [tag |-> "raise"]
\* the call raises plexapi.exceptions.Unauthorized
Unauthorized == [tag |-> "unauthorized"]
Val(v) == [tag |-> "val", v |-> v]
HasAttr(x) == x.tag # "absent"
IsVal(x) == x.tag = "val"

\* username=None
NoUser == "None"

Min(a, b) == IF a < b THEN a ELSE b

\* Exact rationals for Python float results.
RECURSIVE GCD(_, _)
GCD(a, b) == IF b = 0 THEN a ELSE GCD(b, a % b)
Abs(x) == IF x < 0 THEN -x ELSE x
Frac(n, d) == LET g == GCD(Abs(n), d) IN [num |-> n \div g, den |-> d \div g]
FracAdd(a, b) == Frac(a.num * b.den + b.num * a.den, a.den * b.den)
FracLt(a, b) == a.num * b.den < b.num * a.den
FracLe(a, b) == a.num * b.den <= b.num * a.den
Zero == Frac(0, 1)
Hundred == Frac(100, 1)
\* (x / y) * 100
Percent(x, y) == Frac(x * 100, y)
\* x / 60000  (milliseconds to minutes)
MsPerMinute == 60000
Minutes(ms) == Frac(ms, MsPerMinute)

\* maxresults of the history requests
ShowHistoryMax == 50
MovieHistoryMax == 5
Take(s, n) == SubSeq(s, 1, Min(Len(s), n))

-----------------------------------------------------------------------------
\* PlexClient._get_show_statistics

\* show.history(username=username, maxresults=50) inside try/except:
\* None when no username is given or when the request raises.
FetchShowHistory(show, username) ==
    IF username = NoUser THEN NoneV
    ELSE IF show.history.tag = "raise" THEN NoneV
    ELSE Val(Take(show.history.v, ShowHistoryMax))

\* The request of line 288 as the server receives it.
ShowHistoryRequest(show, username) ==
    [key |-> show.key, username |-> username, maxresults |-> ShowHistoryMax]

\* The history requests of one _get_show_statistics call: none when
\* show.episodes() raises (line 274) or without a username (line 284).
ShowHistoryRequests(show, username) ==
    IF show.episodes.tag = "raise" \/ username = NoUser THEN <<>>
    ELSE <<ShowHistoryRequest(show, username)>>

\* `if show_history:` -- neither None nor empty
HistoryTruthy(h) == IsVal(h) /\ Len(h.v) > 0

\* The condition of the history fallback (lines 307-314): same show and same
\* episode index.
EntryMatches(entry, episode) ==
    /\ entry.grandparentRatingKey = episode.grandparentRatingKey
    /\ entry.index = episode.index

\* Index of the first entry of the history that matches the episode, 0 if none.
RECURSIVE FirstMatchFrom(_, _, _)
FirstMatchFrom(h, episode, k) ==
    IF k > Len(h) THEN 0
    ELSE IF EntryMatches(h[k], episode) THEN k
    ELSE FirstMatchFrom(h, episode, k + 1)

\* `entry.viewedAt and (last is None or entry.viewedAt > last)` then last := viewedAt
UpdateLastWatched(last, entry) ==
    IF IsVal(entry.viewedAt) /\ (~IsVal(last) \/ entry.viewedAt.v > last.v)
    THEN entry.viewedAt ELSE last

RECURSIVE MaxViewedAt(_, _, _)
MaxViewedAt(h, k, last) ==
    IF k > Len(h) THEN last
    ELSE MaxViewedAt(h, k + 1, UpdateLastWatched(last, h[k]))

\* AddWatchTime without the `watched` test.
AddWatchTime_Unwatched(total, watched, episode) ==
    IF IsVal(episode.duration) /\ episode.duration.v # 0
    THEN FracAdd(total, Minutes(episode.duration.v)) ELSE total

\* `if watched and episode.duration: total_watch_time += episode.duration / 60000`
AddWatchTime(total, watched, episode) ==
    IF watched /\ IsVal(episode.duration) /\ episode.duration.v # 0
    THEN FracAdd(total, Minutes(episode.duration.v)) ELSE total

\* EpisodeStep with the watched episode counted in the username branch and
\* again after it.
EpisodeStep_CountTwice(acc, episode, username, show_history) ==
    LET byCount == IsVal(episode.viewCount)
        byFlag == ~byCount /\ HasAttr(episode.isWatched)
        watched == IF byCount THEN episode.viewCount.v > 0
                   ELSE byFlag /\ episode.isWatched.v
    IN [watched_episodes |-> acc.watched_episodes
                             + (IF watched /\ username # NoUser THEN 2
                                ELSE IF watched THEN 1 ELSE 0),
        total_watch_time |-> AddWatchTime(acc.total_watch_time, watched, episode),
        last_watched_date |-> acc.last_watched_date]

\* EpisodeStep with the watched flag consulted before the view count.
EpisodeStep_FlagFirst(acc, episode, username, show_history) ==
    LET byFlag == HasAttr(episode.isWatched)
        byCount == ~byFlag /\ IsVal(episode.viewCount)
        fallback == username # NoUser /\ ~byCount /\ ~byFlag
                    /\ HistoryTruthy(show_history)
        m == IF fallback THEN FirstMatchFrom(show_history.v, episode, 1) ELSE 0
        watched == IF byFlag THEN episode.isWatched.v
                   ELSE IF byCount THEN episode.viewCount.v > 0
                   ELSE m > 0
    IN [watched_episodes |-> acc.watched_episodes + (IF watched THEN 1 ELSE 0),
        total_watch_time |-> AddWatchTime(acc.total_watch_time, watched, episode),
        last_watched_date |-> IF m > 0
                              THEN UpdateLastWatched(acc.last_watched_date,
                                                     show_history.v[m])
                              ELSE acc.last_watched_date]

\* One iteration of `for episode in episodes` (lines 293-339).
\* acc = [watched_episodes, total_watch_time, last_watched_date]
EpisodeStep(acc, episode, username, show_history) ==
    LET byCount == IsVal(episode.viewCount)
        byFlag == ~byCount /\ HasAttr(episode.isWatched)
        fallback == username # NoUser /\ ~byCount /\ ~byFlag
                    /\ HistoryTruthy(show_history)
        m == IF fallback THEN FirstMatchFrom(show_history.v, episode, 1) ELSE 0
        watched == IF byCount THEN episode.viewCount.v > 0
                   ELSE IF byFlag THEN episode.isWatched.v
                   ELSE m > 0
    IN [watched_episodes |-> acc.watched_episodes + (IF watched THEN 1 ELSE 0),
        total_watch_time |-> AddWatchTime(acc.total_watch_time, watched, episode),
        last_watched_date |-> IF m > 0
                              THEN UpdateLastWatched(acc.last_watched_date,
                                                     show_history.v[m])
                              ELSE acc.last_watched_date]

RECURSIVE EpisodeLoop(_, _, _, _, _)
EpisodeLoop(acc, episodes, k, username, show_history) ==
    IF k > Len(episodes) THEN acc
    ELSE EpisodeLoop(EpisodeStep(acc, episodes[k], username, show_history),
                     episodes, k + 1, username, show_history)

\* The dictionary of the except branch (lines 368-383).
ShowErrorStat(show, msg) ==
    [title |-> show.title,
     total_episodes |-> 0,
     watched_episodes |-> 0,
     unwatched_episodes |-> 0,
     completion_percentage |-> Zero,
     total_watch_time_minutes |-> Zero,
     last_watched |-> NoneV,
     year |-> NoneV,
     rating |-> NoneV,
     key |-> show.key,
     error |-> msg]

\* ShowCompletion computed from the unwatched episodes.
ShowCompletion_Unwatched(watched_episodes, total_episodes) ==
    IF total_episodes > 0
    THEN Percent(total_episodes - watched_episodes, total_episodes) ELSE Zero

\* completion_percentage (lines 349-352)
ShowCompletion(watched_episodes, total_episodes) ==
    IF total_episodes > 0 THEN Percent(watched_episodes, total_episodes) ELSE Zero

\* The dictionary of the try branch (lines 274-366).
ShowOkStat(show, username) ==
    LET episodes == show.episodes.v
        total_episodes == Len(episodes)
        show_history == FetchShowHistory(show, username)
        acc == EpisodeLoop([watched_episodes |-> 0,
                            total_watch_time |-> Zero,
                            last_watched_date |-> NoneV],
                           episodes, 1, username, show_history)
        last == IF ~IsVal(acc.last_watched_date) /\ HistoryTruthy(show_history)
                THEN MaxViewedAt(show_history.v, 1, acc.last_watched_date)
                ELSE acc.last_watched_date
    IN [title |-> show.title,
        total_episodes |-> total_episodes,
        watched_episodes |-> acc.watched_episodes,
        unwatched_episodes |-> total_episodes - acc.watched_episodes,
        completion_percentage |-> ShowCompletion(acc.watched_episodes, total_episodes),
        total_watch_time_minutes |-> acc.total_watch_time,
        last_watched |-> last,
        year |-> show.year,
        rating |-> show.rating,
        key |-> show.key]

_get_show_statistics(show, username) ==
    IF show.episodes.tag = "raise"
    THEN ShowErrorStat(show, "Error getting episodes")
    ELSE ShowOkStat(show, username)

-----------------------------------------------------------------------------
\* PlexClient._get_movie_statistics

\* The exception, if any, that leaves the try block (lines 476-570) for the
\* except branch; "" when the try block completes.  History requests have
\* their own handlers and never get here.
MovieException(movie) ==
    IF movie.duration.tag = "raise" THEN "Duration error"
    ELSE IF movie.viewOffset.tag = "raise" THEN "ViewOffset error"
    ELSE IF IsVal(movie.viewOffset) /\ movie.viewOffset.v > 0
            /\ movie.duration.tag = "none"
         THEN "unsupported operand type(s) for /: 'int' and 'NoneType'"
    ELSE IF IsVal(movie.viewOffset) /\ movie.viewOffset.v > 0
            /\ movie.duration.v = 0
         THEN "division by zero"
    ELSE ""

\* movie.history(username=username, maxresults=5) or movie.history(maxresults=5),
\* each inside try/except: None when the request raises.
FetchMovieHistory(movie, username) ==
    LET h == IF username # NoUser THEN movie.historyUser ELSE movie.historyGlobal
    IN IF h.tag = "raise" THEN NoneV ELSE Val(Take(h.v, MovieHistoryMax))

\* `movie.duration / 60000 if movie.duration else 0`
DurationMinutes(movie) ==
    IF IsVal(movie.duration) /\ movie.duration.v # 0
    THEN Minutes(movie.duration.v) ELSE Zero

\* view_offset (lines 482, 489-490)
ViewOffset(movie) ==
    IF HasAttr(movie.viewOffset) THEN movie.viewOffset.v ELSE 0

\* MovieWatchCount without line 505: the count stays 0 when only the flag says
\* watched.
MovieWatchCount_FlagIgnored(movie) ==
    IF IsVal(movie.viewCount) THEN movie.viewCount.v ELSE 0

\* watch_count (lines 480, 498-505)
MovieWatchCount(movie) ==
    IF IsVal(movie.viewCount) THEN movie.viewCount.v
    ELSE IF HasAttr(movie.isWatched) /\ movie.isWatched.v THEN 1
    ELSE 0

\* watched (lines 483, 498-502)
MovieWatched(movie) ==
    IF IsVal(movie.viewCount) THEN movie.viewCount.v > 0
    ELSE IF HasAttr(movie.isWatched) THEN movie.isWatched.v
    ELSE FALSE

\* last_watched_date (lines 481, 507-545)
MovieLastWatched(movie, username) ==
    LET history == FetchMovieHistory(movie, username)
    IN IF MovieWatched(movie) /\ HistoryTruthy(history)
       THEN MaxViewedAt(history.v, 1, NoneV)
       ELSE NoneV

\* The history requests of one _get_movie_statistics call (lines 509-545):
\* one for a watched movie whose try block got that far, with the username
\* or global.
MovieHistoryRequests(movie, username) ==
    IF MovieException(movie) = "" /\ MovieWatched(movie)
    THEN <<[key |-> movie.key, username |-> username,
            maxresults |-> MovieHistoryMax]>>
    ELSE <<>>

\* MovieCompletion with `view_offset >= 0` for `view_offset > 0`.
MovieCompletion_OffsetGe(view_offset, duration, watched) ==
    IF view_offset >= 0 /\ IsVal(duration) /\ duration.v # 0
    THEN Percent(view_offset, duration.v)
    ELSE IF watched THEN Hundred
    ELSE Zero

\* completion_percentage (lines 547-556)
MovieCompletion(view_offset, duration, watched) ==
    IF view_offset > 0 /\ IsVal(duration) /\ duration.v # 0
    THEN Percent(view_offset, duration.v)
    ELSE IF watched THEN Hundred
    ELSE Zero

\* The dictionary of the try branch (lines 558-570).
MovieOkStat(movie, username) ==
    [title |-> movie.title,
     year |-> movie.year,
     duration_minutes |-> DurationMinutes(movie),
     watched |-> MovieWatched(movie),
     watch_count |-> MovieWatchCount(movie),
     last_watched |-> MovieLastWatched(movie, username),
     rating |-> movie.rating,
     view_offset |-> ViewOffset(movie),
     completion_percentage |->
         MovieCompletion(ViewOffset(movie), movie.duration, MovieWatched(movie)),
     key |-> movie.key]

\* The dictionary of the except branch (lines 572-587).
MovieErrorStat(movie, msg) ==
    [title |-> movie.title,
     year |-> NoneV,
     duration_minutes |-> Zero,
     watched |-> FALSE,
     watch_count |-> 0,
     last_watched |-> NoneV,
     rating |-> NoneV,
     view_offset |-> 0,
     completion_percentage |-> Zero,
     key |-> movie.key,
     error |-> msg]

\* _get_movie_statistics with a failing history request reaching the except
\* branch.
_get_movie_statistics_HistorySurfaces(movie, username) ==
    IF MovieException(movie) # ""
    THEN MovieErrorStat(movie, MovieException(movie))
    ELSE IF /\ MovieWatched(movie)
            /\ (IF username # NoUser THEN movie.historyUser
                ELSE movie.historyGlobal).tag = "raise"
    THEN MovieErrorStat(movie, "History error")
    ELSE MovieOkStat(movie, username)

_get_movie_statistics(movie, username) ==
    IF MovieException(movie) # ""
    THEN MovieErrorStat(movie, MovieException(movie))
    ELSE MovieOkStat(movie, username)

-----------------------------------------------------------------------------
\* Sorting (list.sort is stable; reverse=True keeps the original order of
\* equal keys).

\* str.lower() on the titles of the model.
Lower(t) ==
    CASE t = "A" -> "a"
      [] t = "B" -> "b"
      [] t = "C" -> "c"
      [] OTHER -> t

\* Position of a lower-case title in Python's string order.
TitleRank(t) ==
    CASE t = "a" -> 1
      [] t = "b" -> 2
      [] t = "c" -> 3

\* datetime(1900, 1, 1) and datetime.min, as years
Date1900 == 1900
DateMin == 1

\* `0 if x[field] is None else x[field]`
ZeroIfNone(x) == IF IsVal(x) THEN x.v ELSE 0
\* `dummy if x["last_watched"] is None else x["last_watched"]`
DateOr(x, dummy) == IF IsVal(x) THEN x.v ELSE dummy

\* a goes strictly before b in the pass named `pass`
Precedes(pass, a, b) ==
    CASE pass = "title" -> TitleRank(Lower(a.title)) < TitleRank(Lower(b.title))
      [] pass = "watched_episodes" -> a.watched_episodes > b.watched_episodes
      [] pass = "completion_percentage" ->
             FracLt(b.completion_percentage, a.completion_percentage)
      [] pass = "last_watched_1900" ->
             DateOr(a.last_watched, Date1900) > DateOr(b.last_watched, Date1900)
      [] pass = "last_watched_min" ->
             DateOr(a.last_watched, DateMin) > DateOr(b.last_watched, DateMin)
      [] pass = "year" -> ZeroIfNone(a.year) > ZeroIfNone(b.year)
      [] pass = "rating" -> ZeroIfNone(a.rating) > ZeroIfNone(b.rating)
      [] pass = "watch_count" -> a.watch_count > b.watch_count
      [] pass = "duration_minutes" -> FracLt(b.duration_minutes, a.duration_minutes)

\* Insert x after every element it does not strictly precede.
RECURSIVE InsertStable(_, _, _, _)
InsertStable(pass, sorted, x, k) ==
    IF k > Len(sorted) THEN Append(sorted, x)
    ELSE IF Precedes(pass, x, sorted[k])
         THEN SubSeq(sorted, 1, k - 1) \o <<x>> \o SubSeq(sorted, k, Len(sorted))
         ELSE InsertStable(pass, sorted, x, k + 1)

RECURSIVE StableSortFrom(_, _, _, _)
StableSortFrom(pass, s, k, sorted) ==
    IF k > Len(s) THEN sorted
    ELSE StableSortFrom(pass, s, k + 1, InsertStable(pass, sorted, s[k], 1))

StableSort(pass, s) == StableSortFrom(pass, s, 1, <<>>)

TV_SORT_OPTIONS ==
    {"title", "watched_episodes", "completion_percentage", "last_watched",
     "year", "rating"}
MOVIE_SORT_OPTIONS ==
    {"title", "year", "last_watched", "watch_count", "rating", "duration_minutes"}

\* SortShows without the title pass before the last_watched pass.
SortShows_SinglePass(show_stats, sort_by) ==
    IF sort_by = "last_watched" THEN StableSort("last_watched_1900", show_stats)
    ELSE IF sort_by \in TV_SORT_OPTIONS THEN StableSort(sort_by, show_stats)
    ELSE show_stats

\* get_all_show_statistics, `# Sort results` (lines 222-255)
SortShows(show_stats, sort_by) ==
    IF sort_by = "last_watched"
    THEN StableSort("last_watched_1900", StableSort("title", show_stats))
    ELSE IF sort_by \in TV_SORT_OPTIONS THEN StableSort(sort_by, show_stats)
    ELSE show_stats

\* get_all_movie_statistics, `# Sort results` (lines 446-461)
SortMovies(movie_stats, sort_by) ==
    IF sort_by = "last_watched" THEN StableSort("last_watched_min", movie_stats)
    ELSE IF sort_by \in MOVIE_SORT_OPTIONS THEN StableSort(sort_by, movie_stats)
    ELSE movie_stats

-----------------------------------------------------------------------------
\* Filtering

\* `0 < stat["completion_percentage"] < 100`
PartiallyWatched(stat) ==
    /\ FracLt(Zero, stat.completion_percentage)
    /\ FracLt(stat.completion_percentage, Hundred)

\* KeepShow with `0 < completion_percentage <= 100`.
KeepShow_Inclusive(stat, include_unwatched, partially_watched_only) ==
    /\ ~(~include_unwatched /\ stat.watched_episodes = 0)
    /\ ~(partially_watched_only
         /\ ~(/\ FracLt(Zero, stat.completion_percentage)
              /\ FracLe(stat.completion_percentage, Hundred)))

\* get_all_show_statistics, lines 210-220: TRUE when the stat is appended
KeepShow(stat, include_unwatched, partially_watched_only) ==
    /\ ~(~include_unwatched /\ stat.watched_episodes = 0)
    /\ ~(partially_watched_only /\ ~PartiallyWatched(stat))

\* KeepMovie that drops unwatched movies whatever include_unwatched is.
KeepMovie_AlwaysDrop(stat, include_unwatched, partially_watched_only) ==
    /\ stat.watched
    /\ ~(partially_watched_only /\ ~PartiallyWatched(stat))

\* get_all_movie_statistics, lines 434-444: TRUE when the stat is appended
KeepMovie(stat, include_unwatched, partially_watched_only) ==
    /\ ~(~include_unwatched /\ ~stat.watched)
    /\ ~(partially_watched_only /\ ~PartiallyWatched(stat))

\* A Python str, for a record field that is not a number.
Str(v) == [tag |-> "str", v |-> v]
\* `x is None`
IsNone(x) == "tag" \in DOMAIN x /\ x.tag = "none"
\* `isinstance(x, (int, float))`: the numbers of the model are the rationals.
IsNumber(x) == DOMAIN x = {"num", "den"}

\* `0 < x < 100` for any Python value x: "raise" is the TypeError of an
\* ordering comparison between an int and a str or None.
CompareStrict(x) ==
    IF ~IsNumber(x) THEN "raise"
    ELSE IF FracLt(Zero, x) /\ FracLt(x, Hundred) THEN "keep"
    ELSE "drop"

\* CliEval without the isinstance test.
CliEval_NoTypeTest(stat) ==
    IF "completion_percentage" \notin DOMAIN stat THEN "drop"
    ELSE IF IsNone(stat.completion_percentage) THEN "drop"
    ELSE CompareStrict(stat.completion_percentage)

\* get_media_statistics, the condition of the list comprehensions of lines
\* 349-355 and 369-375, evaluated left to right with short-circuit `and`:
\* "keep", "drop", or "raise" when the evaluation raises.
CliEval(stat) ==
    IF "completion_percentage" \notin DOMAIN stat THEN "drop"
    ELSE IF IsNone(stat.completion_percentage) THEN "drop"
    ELSE IF ~IsNumber(stat.completion_percentage) THEN "drop"
    ELSE CompareStrict(stat.completion_percentage)

CliKeep(stat) == CliEval(stat) = "keep"
CliRaises(stats) == \E k \in 1..Len(stats) : CliEval(stats[k]) = "raise"

CliFilterList(stats) == SelectSeq(stats, CliKeep)

-----------------------------------------------------------------------------
\* The operations as functions of the catalog and their arguments.

\* section.all() of every section of the type, concatenated
RECURSIVE AllOfType(_, _, _)
AllOfType(secs, type, k) ==
    IF k > Len(secs) THEN <<>>
    ELSE (IF secs[k].type = type THEN secs[k].items ELSE <<>>)
         \o AllOfType(secs, type, k + 1)

HasSection(secs, type) == \E k \in 1..Len(secs) : secs[k].type = type

\* `for show in all_shows` (lines 206-220)
RECURSIVE ShowLoop(_, _, _, _, _, _)
ShowLoop(all_shows, k, username, include_unwatched, partially_watched_only, show_stats) ==
    IF k > Len(all_shows) THEN show_stats
    ELSE LET stat == _get_show_statistics(all_shows[k], username)
         IN ShowLoop(all_shows, k + 1, username, include_unwatched,
                     partially_watched_only,
                     IF KeepShow(stat, include_unwatched, partially_watched_only)
                     THEN Append(show_stats, stat) ELSE show_stats)

get_all_show_statistics(secs, username, include_unwatched, partially_watched_only, sort_by) ==
    IF ~HasSection(secs, "show") THEN <<>>
    ELSE SortShows(ShowLoop(AllOfType(secs, "show", 1), 1, username,
                            include_unwatched, partially_watched_only, <<>>),
                   sort_by)

\* `for movie in all_movies` (lines 430-444)
RECURSIVE MovieLoop(_, _, _, _, _, _)
MovieLoop(all_movies, k, username, include_unwatched, partially_watched_only, movie_stats) ==
    IF k > Len(all_movies) THEN movie_stats
    ELSE LET stat == _get_movie_statistics(all_movies[k], username)
         IN MovieLoop(all_movies, k + 1, username, include_unwatched,
                      partially_watched_only,
                      IF KeepMovie(stat, include_unwatched, partially_watched_only)
                      THEN Append(movie_stats, stat) ELSE movie_stats)

get_all_movie_statistics(secs, username, include_unwatched, partially_watched_only, sort_by) ==
    IF ~HasSection(secs, "movie") THEN <<>>
    ELSE SortMovies(MovieLoop(AllOfType(secs, "movie", 1), 1, username,
                              include_unwatched, partially_watched_only, <<>>),
                    sort_by)

\* get_media_statistics(client, args, media_type, sort_by, username)
get_media_statistics(secs, media_type, username, include_unwatched, partially_watched_only, sort_by) ==
    LET fetched == IF media_type = "show"
                   THEN get_all_show_statistics(secs, username, include_unwatched,
                                                FALSE, sort_by)
                   ELSE get_all_movie_statistics(secs, username, include_unwatched,
                                                 FALSE, sort_by)
    IN IF partially_watched_only THEN CliFilterList(fetched) ELSE fetched

-----------------------------------------------------------------------------
\* The server's catalog.

\* An episode of the show with rating key `key`, at position k of its list.
MkEpisode(key, k, e) ==
    [viewCount |-> e.viewCount,
     isWatched |-> e.isWatched,
     duration |-> e.duration,
     grandparentRatingKey |-> key,
     parentIndex |-> e.parentIndex,
     index |-> k]

\* A history entry of the show with rating key `key`.
MkShowEntry(key, h) ==
    [grandparentRatingKey |-> key,
     parentIndex |-> h.parentIndex,
     index |-> h.index,
     viewedAt |-> h.viewedAt]

MkShow(key, p) ==
    [title |-> p.title,
     year |-> p.year,
     rating |-> p.rating,
     key |-> key,
     episodes |-> IF p.episodes.tag = "raise" THEN Raises
                  ELSE Val([k \in 1..Len(p.episodes.v) |->
                               MkEpisode(key, k, p.episodes.v[k])]),
     history |-> IF p.history.tag = "raise" THEN Raises
                 ELSE Val([k \in 1..Len(p.history.v) |->
                              MkShowEntry(key, p.history.v[k])])]

MkMovie(key, p) ==
    [title |-> p.title,
     year |-> p.year,
     rating |-> p.rating,
     key |-> key,
     duration |-> p.duration,
     viewOffset |-> p.viewOffset,
     viewCount |-> p.viewCount,
     isWatched |-> p.isWatched,
     historyUser |-> p.historyUser,
     historyGlobal |-> p.historyGlobal]

MkTitle(key, p) == IF p.kind = "show" THEN MkShow(key, p) ELSE MkMovie(key, p)

\* The types of the library sections, in the server's order.
Layouts ==
    {<<>>, <<"show">>, <<"movie">>, <<"show", "movie">>, <<"movie", "show">>,
     <<"show", "show">>, <<"movie", "movie">>}

\* The sections with types tl, the n titles obj spread over them by sec.
SectionsOf(tl, n, sec, obj) ==
    [s \in 1..Len(tl) |->
        [type |-> tl[s],
         items |-> LET idx == {k \in 1..n : sec[k] = s}
                       lo == IF idx = {} THEN 0
                             ELSE CHOOSE k \in idx : \A j \in idx : k <= j
                   IN [j \in 1..Cardinality(idx) |-> obj[lo + j - 1]]]]

SeqsUpTo(S, n) == UNION {[1..m -> S] : m \in 0..n}

-----------------------------------------------------------------------------
VARIABLES
    sections,       \* server.library.sections(): <<[type, items]>>
    feed,           \* what server.history(...) answers before its limit
    account,        \* what server.myPlexAccount() answers
    data_recorder,  \* self.data_recorder: None, or the recorder with its log
    pc,             \* "idle", "loop", "recent", "cli", "done", "raised"
    call,           \* the arguments of the running (or last) call
    all_items,      \* all_shows / all_movies / history
    i,              \* position of the `for ... in` loop
    stats,          \* show_stats / movie_stats / results
    seen,           \* shows_seen / movies_seen
    result,         \* the list returned to the caller
    returned,       \* the caller's record of the earlier calls: <<[call, result]>>
    requests,       \* the show.history / movie.history requests the server got
    frame           \* the locals of the running _get_show_statistics, or None

vars == <<sections, feed, account, data_recorder, pc, call, all_items, i, stats, seen, result, returned, requests, frame>>

Usernames == {NoUser, "alice"}

\* partially_watched_only as the client receives it: get_media_statistics
\* does not pass it on (cli.py lines 341-343, 359-361).
ClientPartial == call.caller = "client" /\ call.partially_watched_only

\* Where a client call returns to.
AfterClient == IF call.caller = "cli" THEN "cli" ELSE "done"

\* `if self.data_recorder: self.data_recorder.record_data(data_type, data)`
\* (lines 202-203, 426-427, 621-622, 695-696): the recorder keeps what it was
\* given.
record_data(recorder, data_type, data) ==
    IF IsVal(recorder)
    THEN Val(Append(recorder.v, [data_type |-> data_type, data |-> data]))
    ELSE recorder

\* The data_type tag of get_all_show_statistics / get_all_movie_statistics.
DataType(type) == IF type = "show" THEN "all_shows" ELSE "all_movies"

\* Fetch with the loop position kept from the previous call.
Fetch_KeepsIndex(type) ==
    /\ pc = "idle"
    /\ IF ~HasSection(sections, type)
       THEN /\ all_items' = <<>>
            /\ pc' = AfterClient
            /\ data_recorder' = data_recorder
       ELSE /\ all_items' = AllOfType(sections, type, 1)
            /\ pc' = "loop"
            /\ data_recorder' = record_data(data_recorder, DataType(type),
                                            AllOfType(sections, type, 1))
    /\ i' = i
    /\ stats' = <<>>
    /\ result' = <<>>
    /\ UNCHANGED <<requests, frame, returned, sections, feed, account, seen, call>>

\* get_all_show_statistics / get_all_movie_statistics up to the loop
\* (lines 180-206, 404-430), called directly or from get_media_statistics
\* (cli.py lines 339-343, 357-361).  The arguments are those of `call`.
Fetch(type) ==
    /\ pc = "idle"
    /\ IF ~HasSection(sections, type)
       THEN /\ all_items' = <<>>
            /\ pc' = AfterClient
            /\ data_recorder' = data_recorder
       ELSE /\ all_items' = AllOfType(sections, type, 1)
            /\ pc' = "loop"
            /\ data_recorder' = record_data(data_recorder, DataType(type),
                                            AllOfType(sections, type, 1))
    /\ i' = 1
    /\ stats' = <<>>
    /\ result' = <<>>
    /\ UNCHANGED <<requests, frame, returned, sections, feed, account, seen, call>>

FetchShows == call.op = "shows" /\ Fetch("show")

FetchMovies == call.op = "movies" /\ Fetch("movie")

\* ProcessShow with the exception of show.episodes() leaving the loop and the
\* call.
ProcessShow_Propagates ==
    /\ pc = "loop" /\ call.op = "shows" /\ i <= Len(all_items)
    /\ IF all_items[i].episodes.tag = "raise"
       THEN /\ pc' = "done"
            /\ UNCHANGED <<stats, i>>
       ELSE /\ LET stat == _get_show_statistics(all_items[i], call.username)
               IN stats' = IF KeepShow(stat, call.include_unwatched, ClientPartial)
                           THEN Append(stats, stat) ELSE stats
            /\ i' = i + 1
            /\ pc' = pc
    /\ requests' = requests \o ShowHistoryRequests(all_items[i], call.username)
    /\ UNCHANGED <<frame, returned, sections, feed, account, data_recorder, seen, call, all_items, result>>

\* One iteration of `for show in all_shows` (lines 207-220).
ProcessShow ==
    /\ pc = "loop" /\ call.op = "shows" /\ i <= Len(all_items)
    /\ LET stat == _get_show_statistics(all_items[i], call.username)
       IN stats' = IF KeepShow(stat, call.include_unwatched, ClientPartial)
                   THEN Append(stats, stat) ELSE stats
    /\ requests' = requests \o ShowHistoryRequests(all_items[i], call.username)
    /\ i' = i + 1
    /\ UNCHANGED <<frame, returned, sections, feed, account, data_recorder, seen, pc, call, all_items, result>>

\* One iteration of `for movie in all_movies` (lines 431-444).
ProcessMovie ==
    /\ pc = "loop" /\ call.op = "movies" /\ i <= Len(all_items)
    /\ LET stat == _get_movie_statistics(all_items[i], call.username)
       IN stats' = IF KeepMovie(stat, call.include_unwatched, ClientPartial)
                   THEN Append(stats, stat) ELSE stats
    /\ requests' = requests \o MovieHistoryRequests(all_items[i], call.username)
    /\ i' = i + 1
    /\ UNCHANGED <<frame, returned, sections, feed, account, data_recorder, seen, pc, call, all_items, result>>

\* The sort and `return show_stats` (lines 222-257).
ReturnShows ==
    /\ pc = "loop" /\ call.op = "shows" /\ i > Len(all_items)
    /\ result' = SortShows(stats, call.sort_by)
    /\ pc' = AfterClient
    /\ UNCHANGED <<requests, frame, returned, sections, feed, account, data_recorder, seen, call, all_items, i, stats>>

\* The sort and `return movie_stats` (lines 446-463).
ReturnMovies ==
    /\ pc = "loop" /\ call.op = "movies" /\ i > Len(all_items)
    /\ result' = SortMovies(stats, call.sort_by)
    /\ pc' = AfterClient
    /\ UNCHANGED <<requests, frame, returned, sections, feed, account, data_recorder, seen, call, all_items, i, stats>>

\* get_media_statistics after the client call (cli.py lines 345-380).  An
\* exception of the list comprehension leaves get_media_statistics.
CliFilter ==
    /\ pc = "cli"
    /\ IF call.partially_watched_only /\ CliRaises(result)
       THEN /\ pc' = "raised"
            /\ result' = result
       ELSE /\ pc' = "done"
            /\ result' = IF call.partially_watched_only THEN CliFilterList(result)
                         ELSE result
    /\ UNCHANGED <<requests, frame, returned, sections, feed, account, data_recorder, seen, call, all_items, i, stats>>

Next ==
    \/ FetchShows
    \/ FetchMovies
    \/ ProcessShow
    \/ ProcessMovie
    \/ ReturnShows
    \/ ReturnMovies
    \/ CliFilter

-----------------------------------------------------------------------------
\* Direct calls of the per-title operations.

\* The one title of a catalog that holds exactly one.
TheTitle == sections[1].items[1]

\* _get_show_statistics(show, username)
CallShowStatistics ==
    /\ pc = "idle" /\ call.op = "show_stat"
    /\ result' = <<_get_show_statistics(TheTitle, call.username)>>
    /\ requests' = requests \o ShowHistoryRequests(TheTitle, call.username)
    /\ pc' = "done"
    /\ UNCHANGED <<frame, returned, sections, feed, account, data_recorder, seen, call, all_items, i, stats>>

\* _get_movie_statistics(movie, username)
CallMovieStatistics ==
    /\ pc = "idle" /\ call.op = "movie_stat"
    /\ result' = <<_get_movie_statistics(TheTitle, call.username)>>
    /\ requests' = requests \o MovieHistoryRequests(TheTitle, call.username)
    /\ pc' = "done"
    /\ UNCHANGED <<frame, returned, sections, feed, account, data_recorder, seen, call, all_items, i, stats>>

NextStat == CallShowStatistics \/ CallMovieStatistics

-----------------------------------------------------------------------------
\* Catalogs and calls of the specifications.

Call(op, caller, username, include_unwatched, partially_watched_only, sort_by) ==
    [op |-> op, caller |-> caller, username |-> username,
     include_unwatched |-> include_unwatched,
     partially_watched_only |-> partially_watched_only,
     sort_by |-> sort_by]

\* The catalogs of at most maxTitles titles drawn from Profiles, with rating
\* keys 1, 2, ... in catalog order.
Catalog(Profiles, sizes) ==
    {SectionsOf(c.tl, c.n, c.sec, [k \in 1..c.n |-> MkTitle(k, c.prof[k])]) :
        c \in {c \in UNION {[tl : {tl}, n : {n}, sec : [1..n -> 1..Len(tl)],
                             prof : [1..n -> Profiles]] :
                                tl \in Layouts, n \in sizes} :
                 /\ \A a, b \in 1..c.n : a <= b => c.sec[a] <= c.sec[b]
                 /\ \A k \in 1..c.n : c.prof[k].kind = c.tl[c.sec[k]]}}

InitLocals ==
    /\ pc = "idle"
    /\ all_items = <<>>
    /\ i = 1
    /\ stats = <<>>
    /\ seen = {}
    /\ result = <<>>
    /\ returned = <<>>
    /\ requests = <<>>
    /\ frame = NoneV

\* A client built without a recorder, on a server with an empty history and
\* a token that may not read the account.
InitPlain ==
    /\ feed = Val(<<>>)
    /\ account = Unauthorized
    /\ data_recorder = NoneV
    /\ InitLocals

\* Episode signals: view count absent, None, 0 or positive; watched flag
\* absent, False or True; duration missing or 30 minutes.
EpisodeSignals ==
    [viewCount : {Absent, NoneV, Val(0), Val(2)},
     isWatched : {Absent, Val(FALSE), Val(TRUE)},
     duration : {NoneV, Val(1800000)},
     parentIndex : {1}]

ShowHistories ==
    {Raises, Val(<<>>),
     Val(<<[parentIndex |-> 1, index |-> 1, viewedAt |-> Val(2023)]>>)}

StatShowProfiles ==
    [kind : {"show"}, title : {"A"}, year : {Val(2020)}, rating : {Val(8)},
     episodes : {Raises} \cup {Val(e) : e \in SeqsUpTo(EpisodeSignals, MaxEpisodes)},
     history : ShowHistories]

MovieHistories ==
    {Raises, Val(<<>>), Val(<<[viewedAt |-> Val(2022)], [viewedAt |-> Val(2023)]>>)}

StatMovieProfiles ==
    [kind : {"movie"}, title : {"A"}, year : {Val(2020)}, rating : {Val(8)},
     duration : {Raises, NoneV, Val(0), Val(7200000)},
     viewOffset : {Absent, Raises, Val(-1), Val(0), Val(3600000), Val(7200000),
                   Val(9000000)},
     viewCount : {Absent, NoneV, Val(0), Val(2)},
     isWatched : {Absent, Val(FALSE), Val(TRUE)},
     historyUser : MovieHistories,
     historyGlobal : {Raises, Val(<<[viewedAt |-> Val(2024)]>>)}]

\* One title, every combination of its signals, one per-title call.
InitStat ==
    /\ \E p \in StatShowProfiles \cup StatMovieProfiles :
          /\ sections = <<[type |-> p.kind, items |-> <<MkTitle(1, p)>>]>>
          /\ \E username \in Usernames :
                call = Call(IF p.kind = "show" THEN "show_stat" ELSE "movie_stat",
                            "client", username, FALSE, FALSE, "title")
    /\ InitPlain

SpecStat == InitStat /\ [][NextStat]_vars

-----------------------------------------------------------------------------
\* Whole runs of get_all_show_statistics, get_all_movie_statistics and
\* get_media_statistics over catalogs of several titles.

WatchedEpisode ==
    [viewCount |-> Val(1), isWatched |-> Val(TRUE), duration |-> Val(1800000),
     parentIndex |-> 1]
UnwatchedEpisode ==
    [viewCount |-> Val(0), isWatched |-> Val(FALSE), duration |-> Val(1800000),
     parentIndex |-> 1]

\* Shows: episodes() raises, no episodes, none / some / all episodes watched.
RunShowProfiles ==
    [kind : {"show"}, title : {"A"}, year : {Val(2020)}, rating : {Val(8)},
     episodes : {Raises, Val(<<>>),
                 Val(<<UnwatchedEpisode, UnwatchedEpisode>>),
                 Val(<<WatchedEpisode, UnwatchedEpisode>>),
                 Val(<<WatchedEpisode, WatchedEpisode>>)},
     history : {Val(<<>>)}]

MovieSignals(duration, viewOffset, viewCount, isWatched) ==
    [kind |-> "movie", title |-> "B", year |-> Val(2021), rating |-> Val(7),
     duration |-> duration, viewOffset |-> viewOffset, viewCount |-> viewCount,
     isWatched |-> isWatched,
     historyUser |-> Val(<<[viewedAt |-> Val(2023)]>>),
     historyGlobal |-> Val(<<[viewedAt |-> Val(2024)]>>)]

\* Movies: duration raises; unwatched; half played and not watched; watched;
\* watched and half replayed; offset beyond the duration.
RunMovieProfiles ==
    {MovieSignals(Raises, Val(0), Val(1), Val(TRUE)),
     MovieSignals(Val(7200000), Val(0), Val(0), Val(FALSE)),
     MovieSignals(Val(7200000), Val(3600000), Val(0), Val(FALSE)),
     MovieSignals(Val(7200000), Val(0), Val(2), Val(TRUE)),
     MovieSignals(Val(7200000), Val(3600000), Val(1), Val(TRUE)),
     MovieSignals(Val(7200000), Val(9000000), Val(1), Val(TRUE))}

\* Direct client calls and CLI calls, each with the sort keys the CLI uses
\* by default (cli.py line 315) and the client's default "title".
RunCalls ==
    {Call("shows", caller, username, iu, pwo, sort_by) :
        caller \in {"client", "cli"}, username \in Usernames,
        iu \in BOOLEAN, pwo \in BOOLEAN,
        sort_by \in {"title", "completion_percentage"}}
    \cup
    {Call("movies", caller, username, iu, pwo, sort_by) :
        caller \in {"client", "cli"}, username \in Usernames,
        iu \in BOOLEAN, pwo \in BOOLEAN,
        sort_by \in {"title", "last_watched"}}

Init ==
    /\ sections \in Catalog(RunShowProfiles \cup RunMovieProfiles, 0..MaxTitles)
    /\ call \in RunCalls
    /\ InitPlain

Spec == Init /\ [][Next]_vars

-----------------------------------------------------------------------------
\* Properties of the per-title operations (SpecStat).

ShowStatReturned == pc = "done" /\ call.op = "show_stat"
MovieStatReturned == pc = "done" /\ call.op = "movie_stat"
TheStat == result[1]

\* C1: every ShowStatistic returned by _get_show_statistics, on the success
\* and on the failure path, with or without a username, has
\* watched_episodes + unwatched_episodes = total_episodes and
\* 0 <= watched_episodes <= total_episodes.
C1_ShowCountsConsistent ==
    ShowStatReturned =>
        /\ TheStat.watched_episodes + TheStat.unwatched_episodes
              = TheStat.total_episodes
        /\ 0 <= TheStat.watched_episodes
        /\ TheStat.watched_episodes <= TheStat.total_episodes

\* A show with a username whose episodes are partly watched, on the success
\* path.
C1_Witness ==
    /\ ShowStatReturned
    /\ call.username # NoUser
    /\ "error" \notin DOMAIN TheStat
    /\ TheStat.watched_episodes = 1
    /\ TheStat.unwatched_episodes = 1
    /\ TheStat.total_episodes = 2

\* C2: completion_percentage of a show is watched_episodes / total_episodes
\* * 100 when total_episodes > 0 and 0 when total_episodes = 0, and so lies
\* in [0, 100].
C2_ShowCompletionRule ==
    ShowStatReturned =>
        LET c == TheStat.completion_percentage
        IN /\ TheStat.total_episodes > 0 =>
                 c.num * TheStat.total_episodes
                    = 100 * TheStat.watched_episodes * c.den
           /\ TheStat.total_episodes = 0 => c.num = 0
           /\ c.den > 0
           /\ 0 <= c.num
           /\ c.num <= 100 * c.den

\* A show with one of two episodes watched: 50 percent.
C2_Witness ==
    /\ ShowStatReturned
    /\ TheStat.total_episodes = 2
    /\ TheStat.watched_episodes = 1
    /\ TheStat.completion_percentage = [num |-> 50, den |-> 1]

\* C3: every MovieStatistic returned by _get_movie_statistics has
\* 0 <= completion_percentage <= 100.
C3_MovieCompletionInRange ==
    MovieStatReturned =>
        /\ FracLe(Zero, TheStat.completion_percentage)
        /\ FracLe(TheStat.completion_percentage, Hundred)

\* The attribute reads of the try block that precede the completion rule do
\* not raise by themselves.
MovieReadable(movie) ==
    movie.duration.tag # "raise" /\ movie.viewOffset.tag # "raise"

\* C4: completion_percentage of a movie is view_offset / duration * 100 if
\* view_offset > 0 and the duration is known; otherwise 100 if the movie is
\* watched; otherwise 0.  A watched movie with view_offset > 0 and a missing
\* or zero duration gets 100.
C4_MovieThreeWayRule ==
    (MovieStatReturned /\ MovieReadable(TheTitle)) =>
        LET offset == IF IsVal(TheTitle.viewOffset) THEN TheTitle.viewOffset.v ELSE 0
            known == IsVal(TheTitle.duration) /\ TheTitle.duration.v # 0
            watched == IF IsVal(TheTitle.viewCount) THEN TheTitle.viewCount.v > 0
                       ELSE IsVal(TheTitle.isWatched) /\ TheTitle.isWatched.v
            c == TheStat.completion_percentage
        IN IF offset > 0 /\ known
           THEN c.num * TheTitle.duration.v = 100 * offset * c.den
           ELSE IF watched THEN c = Hundred
           ELSE c = Zero

\* C5: watched = true and view_offset = 0 imply completion_percentage = 100.
C5_WatchedNoOffsetIsComplete ==
    MovieStatReturned =>
        ((TheStat.watched /\ TheStat.view_offset = 0)
            => TheStat.completion_percentage = Hundred)

\* A watched movie with a known duration and no view offset.
C5_Witness ==
    /\ MovieStatReturned
    /\ TheStat.watched
    /\ TheStat.view_offset = 0
    /\ IsVal(TheTitle.viewOffset)
    /\ IsVal(TheTitle.duration) /\ TheTitle.duration.v > 0
    /\ TheStat.completion_percentage = Hundred

-----------------------------------------------------------------------------
\* Properties of whole runs (Spec).

Done == pc = "done"
CallType == IF call.op = "shows" THEN "show" ELSE "movie"

\* The titles the call is about, in catalog order.
CallTitles == AllOfType(sections, CallType, 1)

\* The computation of the title's statistic raises inside the try block.
Fails(type, title) ==
    IF type = "show" THEN title.episodes.tag = "raise"
    ELSE title.duration.tag = "raise" \/ title.viewOffset.tag = "raise"
         \/ (/\ IsVal(title.viewOffset) /\ title.viewOffset.v > 0
             /\ ~(IsVal(title.duration) /\ title.duration.v # 0))

\* The statistic of a title of the call's type.
StatOf(title) ==
    IF CallType = "show" THEN _get_show_statistics(title, call.username)
    ELSE _get_movie_statistics(title, call.username)

\* The catalog with the failing titles taken out.
WithoutFailing(secs) ==
    [s \in 1..Len(secs) |->
        [type |-> secs[s].type,
         items |-> SelectSeq(secs[s].items,
                             LAMBDA t : ~Fails(secs[s].type, t))]]

\* What the call returns over the catalog secs.
RunResult(secs) ==
    IF call.caller = "cli"
    THEN get_media_statistics(secs, CallType, call.username,
                              call.include_unwatched,
                              call.partially_watched_only, call.sort_by)
    ELSE IF call.op = "shows"
    THEN get_all_show_statistics(secs, call.username, call.include_unwatched,
                                 call.partially_watched_only, call.sort_by)
    ELSE get_all_movie_statistics(secs, call.username, call.include_unwatched,
                                  call.partially_watched_only, call.sort_by)

ShowStatKeys ==
    {"title", "total_episodes", "watched_episodes", "unwatched_episodes",
     "completion_percentage", "total_watch_time_minutes", "last_watched",
     "year", "rating", "key"}
MovieStatKeys ==
    {"title", "year", "duration_minutes", "watched", "watch_count",
     "last_watched", "rating", "view_offset", "completion_percentage", "key"}

\* The record of a failed computation: every documented key, numeric fields
\* 0, watched false, last_watched null, and an error.
IsFailureRecord(type, st) ==
    /\ "error" \in DOMAIN st
    /\ st.last_watched = NoneV
    /\ st.completion_percentage = Zero
    /\ IF type = "show"
       THEN /\ DOMAIN st = ShowStatKeys \cup {"error"}
            /\ st.total_episodes = 0
            /\ st.watched_episodes = 0
            /\ st.unwatched_episodes = 0
            /\ st.total_watch_time_minutes = Zero
       ELSE /\ DOMAIN st = MovieStatKeys \cup {"error"}
            /\ st.duration_minutes = Zero
            /\ st.watch_count = 0
            /\ st.view_offset = 0
            /\ st.watched = FALSE

HasError(st) == "error" \in DOMAIN st
HasNoError(st) == "error" \notin DOMAIN st
ResultKeys == {result[k].key : k \in 1..Len(result)}
TitleKeys(P(_)) == {CallTitles[k].key : k \in {j \in 1..Len(CallTitles) : P(CallTitles[j])}}

\* C6: a title whose computation raises yields a failure record (every
\* documented key, numerics 0, watched false, last_watched null, error), and
\* the records returned for the other titles are those of a run over the
\* catalog without the failing titles.
C6_FaultIsolation ==
    /\ \A k \in 1..Len(CallTitles) :
          IF Fails(CallType, CallTitles[k])
          THEN IsFailureRecord(CallType, StatOf(CallTitles[k]))
          ELSE DOMAIN StatOf(CallTitles[k])
                  = IF CallType = "show" THEN ShowStatKeys ELSE MovieStatKeys
    /\ Done => SelectSeq(result, HasNoError) = RunResult(WithoutFailing(sections))

\* A finished run whose result holds a failure record next to the record of
\* another title.
C6_Witness ==
    /\ Done
    /\ \E a, b \in 1..Len(result) :
          /\ HasError(result[a])
          /\ IsFailureRecord(CallType, result[a])
          /\ HasNoError(result[b])
    /\ RunResult(WithoutFailing(sections)) # <<>>

\* C7: with partially_watched_only = false, a title whose computation failed
\* is present in the returned list with its error field, for both values of
\* include_unwatched.
C7_FailedTitlePresent ==
    (Done /\ ~call.partially_watched_only) =>
        \A k \in 1..Len(CallTitles) :
            Fails(CallType, CallTitles[k]) =>
                \E j \in 1..Len(result) :
                    /\ result[j].key = CallTitles[k].key
                    /\ HasError(result[j])

WatchedSignal(title) ==
    IF CallType = "show" THEN StatOf(title).watched_episodes > 0
    ELSE StatOf(title).watched
AnyTitle(title) == TRUE

\* C8: with partially_watched_only = false, include_unwatched = false
\* returns exactly the titles with a watched signal (watched_episodes > 0,
\* watched = true), and include_unwatched = true returns every title.
C8_IncludeUnwatched ==
    (Done /\ ~call.partially_watched_only) =>
        /\ Len(result) = Cardinality(ResultKeys)
        /\ ResultKeys = IF call.include_unwatched THEN TitleKeys(AnyTitle)
                        ELSE TitleKeys(WatchedSignal)

\* A run without include_unwatched over a catalog with a watched and an
\* unwatched title: one is returned, the other is not.
C8_Witness ==
    /\ Done
    /\ ~call.partially_watched_only
    /\ ~call.include_unwatched
    /\ Len(result) = 1
    /\ Len(CallTitles) = 2

PartialTitle(title) == PartiallyWatched(StatOf(title))

\* C9: with partially_watched_only = true, every returned entry has
\* 0 < completion_percentage < 100, whatever include_unwatched is.
C9_PartialOnlyStrict ==
    (Done /\ call.partially_watched_only) =>
        \A k \in 1..Len(result) :
            /\ FracLt(Zero, result[k].completion_percentage)
            /\ FracLt(result[k].completion_percentage, Hundred)

\* A client run with partially_watched_only over a partly watched and a
\* fully watched title: only the first is returned.
C9_Witness ==
    /\ Done
    /\ call.caller = "client"
    /\ call.partially_watched_only
    /\ Len(result) = 1
    /\ \E k \in 1..Len(CallTitles) :
          StatOf(CallTitles[k]).completion_percentage = Hundred

\* C10: with partially_watched_only alone (include_unwatched = false), the
\* result is exactly the titles whose completion_percentage is strictly
\* between 0 and 100, whatever their watched flag, for the client operations
\* and for get_media_statistics.
C10_PartialOnlyExact ==
    (Done /\ call.partially_watched_only /\ ~call.include_unwatched) =>
        ResultKeys = TitleKeys(PartialTitle)

-----------------------------------------------------------------------------
\* get_media_statistics over a client that returns any list of records
\* (src/tests/test_cli.py, test_get_media_statistics_edge_cases).

\* completion_percentage missing, None, a str, negative, 0, 25, 50, 100, 110.
EdgeRecords ==
    {[title |-> "A"]}
    \cup [title : {"A"},
          completion_percentage :
              {NoneV, Str("50"), Frac(-10, 1), Zero, Frac(25, 1), Frac(50, 1),
               Hundred, Frac(110, 1)}]

\* client.get_all_show_statistics(...) / client.get_all_movie_statistics(...)
\* of cli.py lines 341-343 and 359-361 on a mock client: any list of records.
MockClientReturns ==
    /\ pc = "idle" /\ call.caller = "cli"
    /\ \E r \in SeqsUpTo(EdgeRecords, MaxRecords) :
          /\ stats' = r
          /\ result' = r
    /\ pc' = "cli"
    /\ UNCHANGED <<requests, frame, returned, sections, feed, account, data_recorder, seen, call, all_items, i>>

NextCli == MockClientReturns \/ CliFilter

InitCli ==
    /\ sections = <<>>
    /\ call \in {Call(op, "cli", "alice", FALSE, pwo, "title") :
                     op \in {"shows", "movies"}, pwo \in BOOLEAN}
    /\ InitPlain

SpecCli == InitCli /\ [][NextCli]_vars

\* The value is a number strictly between 0 and 100.
StrictlyPartial(stat) ==
    /\ "completion_percentage" \in DOMAIN stat
    /\ DOMAIN stat.completion_percentage = {"num", "den"}
    /\ 0 < stat.completion_percentage.num
    /\ stat.completion_percentage.num < 100 * stat.completion_percentage.den

\* C11: get_media_statistics with partially_watched_only never raises on
\* malformed records; an entry whose completion_percentage is missing, null,
\* non-numeric, negative or >= 100 is excluded, and the remaining entries
\* (those strictly between 0 and 100) are returned unchanged in their
\* original relative order.
C11_CliFilterTolerant ==
    /\ pc # "raised"
    /\ (Done /\ call.partially_watched_only) =>
           result = SelectSeq(stats, StrictlyPartial)

\* A str value between two valid values: it is dropped without an exception
\* and the valid ones come back in their order.
C11_Witness ==
    /\ Done
    /\ call.partially_watched_only
    /\ Len(stats) = 3
    /\ "completion_percentage" \in DOMAIN stats[2]
    /\ stats[2].completion_percentage = Str("50")
    /\ result = <<[title |-> "A", completion_percentage |-> Frac(50, 1)],
                  [title |-> "A", completion_percentage |-> Frac(25, 1)]>>

-----------------------------------------------------------------------------
\* Direct client calls over one library section, for the sort orders.

\* One section of the type with up to n titles drawn from Profiles, rating
\* keys 1, 2, ... in library order.
OneSection(type, Profiles, n) ==
    UNION {{<<[type |-> type, items |-> [k \in 1..m |-> MkTitle(k, f[k])]]>> :
               f \in [1..m -> Profiles]} : m \in 0..n}

NextClient ==
    \/ FetchShows
    \/ FetchMovies
    \/ ProcessShow
    \/ ProcessMovie
    \/ ReturnShows
    \/ ReturnMovies

\* Watched titles whose year is missing or known and whose rating is missing,
\* 0 or 8.
MetaShowProfiles ==
    [kind : {"show"}, title : {"A"},
     year : {NoneV, Val(2020), Val(2021)}, rating : {NoneV, Val(0), Val(8)},
     episodes : {Val(<<WatchedEpisode>>)}, history : {Val(<<>>)}]

MetaMovieProfiles ==
    [kind : {"movie"}, title : {"A"},
     year : {NoneV, Val(2020), Val(2021)}, rating : {NoneV, Val(0), Val(8)},
     duration : {Val(7200000)}, viewOffset : {Val(0)}, viewCount : {Val(1)},
     isWatched : {Val(TRUE)},
     historyUser : {Val(<<>>)}, historyGlobal : {Val(<<>>)}]

InitMeta ==
    /\ \/ /\ sections \in OneSection("show", MetaShowProfiles, MaxTitles)
          /\ call \in {Call("shows", "client", NoUser, FALSE, FALSE, sort_by) :
                           sort_by \in {"year", "rating"}}
       \/ /\ sections \in OneSection("movie", MetaMovieProfiles, MaxTitles)
          /\ call \in {Call("movies", "client", NoUser, FALSE, FALSE, sort_by) :
                           sort_by \in {"year", "rating"}}
    /\ InitPlain

SpecMeta == InitMeta /\ [][NextClient]_vars

\* The values of the sort field down the returned list.
SortField == [k \in 1..Len(result) |-> result[k][call.sort_by]]

\* C12: sorting shows or movies by year or by rating puts the non-null values
\* in non-increasing order and every entry whose value is null after every
\* entry whose value is non-null, for all values of the field (0 included).
C12_NullableDescNullLast ==
    (Done /\ call.sort_by \in {"year", "rating"}) =>
        \A a, b \in 1..Len(result) :
            a < b =>
                /\ (IsVal(SortField[a]) /\ IsVal(SortField[b]))
                      => SortField[a].v >= SortField[b].v
                /\ ~(~IsVal(SortField[a]) /\ IsVal(SortField[b]))

-----------------------------------------------------------------------------
\* Sorting by last_watched.

\* "b" sorts between "A" and "C" only when case is ignored.
SortTitles == {"A", "b", "C"}

\* Never watched, last watched in 2022, last watched in 2023.
SortHistories ==
    {Val(<<>>),
     Val(<<[parentIndex |-> 1, index |-> 1, viewedAt |-> Val(2022)]>>),
     Val(<<[parentIndex |-> 1, index |-> 1, viewedAt |-> Val(2023)]>>)}

DatedShowProfiles ==
    [kind : {"show"}, title : SortTitles, year : {Val(2020)}, rating : {Val(8)},
     episodes : {Val(<<WatchedEpisode>>)}, history : SortHistories]

DatedMovie(title, h) ==
    [kind |-> "movie", title |-> title, year |-> Val(2020), rating |-> Val(8),
     duration |-> Val(7200000), viewOffset |-> Val(0), viewCount |-> Val(1),
     isWatched |-> Val(TRUE), historyUser |-> h, historyGlobal |-> h]

DatedMovieProfiles == {DatedMovie(title, h) : title \in SortTitles, h \in SortHistories}

InitLastWatched ==
    /\ \/ /\ sections \in OneSection("show", DatedShowProfiles, MaxSortTitles)
          /\ call \in {Call("shows", "client", username, FALSE, FALSE, "last_watched") :
                           username \in Usernames}
       \/ /\ sections \in OneSection("movie", DatedMovieProfiles, MaxSortTitles)
          /\ call \in {Call("movies", "client", username, FALSE, FALSE, "last_watched") :
                           username \in Usernames}
    /\ InitPlain

SpecLastWatched == InitLastWatched /\ [][NextClient]_vars

\* result[a] and result[b], a before b, are in last_watched order: no null
\* before a non-null, no earlier date before a later one, and equal values
\* (both null included) in case-insensitive title order.
LastWatchedOrdered(a, b) ==
    LET x == result[a].last_watched
        y == result[b].last_watched
    IN /\ ~(~IsVal(x) /\ IsVal(y))
       /\ (IsVal(x) /\ IsVal(y)) => x.v >= y.v
       /\ x = y => TitleRank(Lower(result[a].title))
                      <= TitleRank(Lower(result[b].title))

ResultTitles == [k \in 1..Len(result) |-> result[k].title]
CatalogTitles == [k \in 1..Len(CallTitles) |-> CallTitles[k].title]

\* C13: get_all_show_statistics with sort_by = last_watched returns the shows
\* in non-increasing last_watched order, every null after every non-null, and
\* shows with equal last_watched (both null included) in case-insensitive
\* title-ascending order, whatever the catalog order.
C13_ShowsLastWatchedOrder ==
    (Done /\ call.op = "shows" /\ call.sort_by = "last_watched") =>
        \A a, b \in 1..Len(result) : a < b => LastWatchedOrdered(a, b)

\* Scenario C: (b, null), (A, 2023), (C, null) come back as A, b, C.
C13_Witness ==
    /\ Done /\ call.op = "shows" /\ call.sort_by = "last_watched"
    /\ CatalogTitles = <<"b", "A", "C">>
    /\ ResultTitles = <<"A", "b", "C">>
    /\ result[1].last_watched = Val(2023)
    /\ result[2].last_watched = NoneV
    /\ result[3].last_watched = NoneV

\* C14: get_all_movie_statistics with sort_by = last_watched returns the
\* movies with nulls last and movies with equal last_watched (both null
\* included) in title-ascending order, whatever order the library returned
\* them in.
C14_MoviesLastWatchedOrder ==
    (Done /\ call.op = "movies" /\ call.sort_by = "last_watched") =>
        \A a, b \in 1..Len(result) : a < b => LastWatchedOrdered(a, b)

-----------------------------------------------------------------------------
\* PlexClient.get_recently_watched_shows, PlexClient.get_recently_watched_movies

\* `query_limit = limit * 3` for episodes (line 606); movies are requested
\* with limit itself (lines 686-689).
OverFetch == 3
QueryLimit(op, limit) == IF op = "recent_shows" THEN limit * OverFetch ELSE limit

\* self.server.history(limit=query_limit, type=..., [username=...]): the
\* first query_limit entries of the server's answer, or an exception.
ServerHistory(f, op, limit) ==
    IF f.tag = "raise" THEN Raises ELSE Val(Take(f.v, QueryLimit(op, limit)))

\* `episode.duration / 60000 if episode.duration else 0` (line 649; lines
\* 713-715 for a movie entry)
EntryMinutes(entry) ==
    IF IsVal(entry.duration) /\ entry.duration.v # 0
    THEN Minutes(entry.duration.v) ELSE Zero

\* The dictionary appended for an episode entry (lines 643-654).
RecentShowDict(entry) ==
    [show_title |-> entry.show.v.title,
     episode_title |-> entry.title,
     season |-> entry.seasonNumber,
     episode |-> entry.index,
     duration_minutes |-> EntryMinutes(entry),
     viewed_at |-> entry.viewedAt,
     user |-> entry.username,
     year |-> entry.show.v.year]

\* watch_count of a movie entry (lines 718-732)
RecentWatchCount(entry) ==
    IF IsVal(entry.viewCount) THEN entry.viewCount.v
    ELSE IF entry.history.tag = "raise" THEN 1
    ELSE Len(entry.history.v)

\* The dictionary appended for a movie entry (lines 735-745).
RecentMovieDict(entry) ==
    [title |-> entry.title,
     year |-> entry.year,
     duration_minutes |-> EntryMinutes(entry),
     viewed_at |-> entry.viewedAt,
     user |-> entry.username,
     rating |-> entry.rating,
     watch_count |-> RecentWatchCount(entry)]

\* The type the loop of the operation keeps (lines 630, 704).
EntryType(op) == IF op = "recent_shows" THEN "episode" ELSE "movie"

\* An exception inside the per-entry try block: episode.show() raises
\* (line 636), or an attribute read of the movie entry raises (line 742).
EntryRaises(op, entry) ==
    IF op = "recent_shows" THEN entry.show.tag = "raise"
    ELSE entry.rating.tag = "raise"

\* show.key (line 639) / entry.key (line 709)
EntryKey(op, entry) == IF op = "recent_shows" THEN entry.show.v.key ELSE entry.key

\* RecentStep that does not remember the shows (movies) already added.
RecentStep_NoDedupe(op, entry, results, keys, limit) ==
    IF entry.type # EntryType(op) \/ EntryRaises(op, entry)
    THEN [results |-> results, seen |-> keys, stop |-> "no"]
    ELSE LET d == IF op = "recent_shows" THEN RecentShowDict(entry)
                  ELSE RecentMovieDict(entry)
         IN [results |-> Append(results, d),
             seen |-> keys,
             stop |-> IF Len(results) + 1 >= limit THEN "break" ELSE "no"]

\* RecentStep with the exception of the entry leaving the loop and the call.
RecentStep_Propagates(op, entry, results, keys, limit) ==
    IF entry.type # EntryType(op)
    THEN [results |-> results, seen |-> keys, stop |-> "no"]
    ELSE IF op = "recent_shows" /\ EntryRaises(op, entry)
    THEN [results |-> results, seen |-> keys, stop |-> "raise"]
    ELSE IF EntryKey(op, entry) \in keys
    THEN [results |-> results, seen |-> keys, stop |-> "no"]
    ELSE IF EntryRaises(op, entry)
    THEN [results |-> results, seen |-> keys, stop |-> "raise"]
    ELSE LET d == IF op = "recent_shows" THEN RecentShowDict(entry)
                  ELSE RecentMovieDict(entry)
         IN [results |-> Append(results, d),
             seen |-> keys \cup {EntryKey(op, entry)},
             stop |-> IF Len(results) + 1 >= limit THEN "break" ELSE "no"]

\* One iteration of `for entry in history` (lines 628-662, 702-753):
\* the new results and shows_seen / movies_seen, and whether the loop goes on
\* ("no"), breaks at the limit ("break") or is left by an exception ("raise").
RecentStep(op, entry, results, keys, limit) ==
    IF entry.type # EntryType(op)
    THEN [results |-> results, seen |-> keys, stop |-> "no"]
    ELSE IF op = "recent_shows" /\ EntryRaises(op, entry)
    THEN [results |-> results, seen |-> keys, stop |-> "no"]
    ELSE IF EntryKey(op, entry) \in keys
    THEN [results |-> results, seen |-> keys, stop |-> "no"]
    ELSE IF EntryRaises(op, entry)
    THEN [results |-> results, seen |-> keys, stop |-> "no"]
    ELSE LET d == IF op = "recent_shows" THEN RecentShowDict(entry)
                  ELSE RecentMovieDict(entry)
         IN [results |-> Append(results, d),
             seen |-> keys \cup {EntryKey(op, entry)},
             stop |-> IF Len(results) + 1 >= limit THEN "break" ELSE "no"]

RECURSIVE RecentLoop(_, _, _, _, _, _)
RecentLoop(op, history, k, results, keys, limit) ==
    IF k > Len(history) THEN results
    ELSE LET st == RecentStep(op, history[k], results, keys, limit)
         IN IF st.stop = "break" THEN st.results
            ELSE RecentLoop(op, history, k + 1, st.results, st.seen, limit)

\* get_recently_watched_shows / get_recently_watched_movies as a function of
\* the server's answer and the limit.
get_recently_watched(op, f, limit) ==
    LET history == ServerHistory(f, op, limit)
    IN IF history.tag = "raise" THEN <<>>
       ELSE RecentLoop(op, history.v, 1, <<>>, {}, limit)

\* The data_type tag of the recent-activity operations (lines 622, 696).
RecentDataType(op) ==
    IF op = "recent_shows" THEN "recently_watched_shows"
    ELSE "recently_watched_movies"

IsRecent == call.op \in {"recent_shows", "recent_movies"}

\* The history request, the empty test and the recorder call (lines 603-626,
\* 684-700); an exception of the request is caught at lines 666-668, 757-759.
FetchRecent ==
    /\ pc = "idle" /\ IsRecent
    /\ LET history == ServerHistory(feed, call.op, call.limit)
       IN IF history.tag = "raise" \/ history.v = <<>>
          THEN /\ all_items' = <<>>
               /\ pc' = "done"
               /\ data_recorder' = data_recorder
          ELSE /\ all_items' = history.v
               /\ pc' = "recent"
               /\ data_recorder' = record_data(data_recorder,
                                               RecentDataType(call.op), history.v)
    /\ i' = 1
    /\ stats' = <<>>
    /\ seen' = {}
    /\ result' = <<>>
    /\ UNCHANGED <<requests, frame, returned, sections, feed, account, call>>

\* One iteration of `for entry in history`; the break at the limit goes to
\* `return results`.
ProcessEntry ==
    /\ pc = "recent" /\ i <= Len(all_items)
    /\ LET st == RecentStep(call.op, all_items[i], stats, seen, call.limit)
       IN /\ stats' = st.results
          /\ seen' = st.seen
          /\ IF st.stop = "raise"
             THEN pc' = "raised" /\ result' = result
             ELSE IF st.stop = "break"
             THEN pc' = "done" /\ result' = st.results
             ELSE pc' = pc /\ result' = result
    /\ i' = i + 1
    /\ UNCHANGED <<requests, frame, returned, sections, feed, account, data_recorder, call, all_items>>

\* `return results` after the last entry (lines 664, 755).
ReturnRecent ==
    /\ pc = "recent" /\ i > Len(all_items)
    /\ result' = stats
    /\ pc' = "done"
    /\ UNCHANGED <<requests, frame, returned, sections, feed, account, data_recorder, seen, call, all_items, i, stats>>

NextRecent == FetchRecent \/ ProcessEntry \/ ReturnRecent

RecentCall(op, username, limit) ==
    [op |-> op, caller |-> "client", username |-> username, limit |-> limit]

ShowTitleOf(key) == IF key = 1 THEN "A" ELSE IF key = 2 THEN "B" ELSE "C"

\* A history entry of an episode of the show with the key, viewed at t.
EpisodeEntry(key, t) ==
    [type |-> "episode",
     show |-> Val([key |-> key, title |-> ShowTitleOf(key), year |-> Val(2020)]),
     title |-> "Episode", seasonNumber |-> 1, index |-> 1,
     duration |-> Val(1800000), viewedAt |-> Val(t), username |-> "alice"]

\* A history entry of the movie with the key, viewed at t.
MovieEntry(key, t) ==
    [type |-> "movie", key |-> key, title |-> ShowTitleOf(key),
     year |-> Val(2020), duration |-> Val(7200000), viewedAt |-> Val(t),
     username |-> "alice", rating |-> Val(8), viewCount |-> Val(1),
     history |-> Val(<<>>)]

\* Episodes of show A viewed in 2022 or 2023, of shows B and C, an episode
\* whose show lookup raises, and an entry that is not an episode.
EpisodeFeedEntries ==
    {EpisodeEntry(1, 2022), EpisodeEntry(1, 2023), EpisodeEntry(2, 2023),
     EpisodeEntry(3, 2023),
     [EpisodeEntry(1, 2023) EXCEPT !.show = Raises],
     [EpisodeEntry(1, 2023) EXCEPT !.type = "clip"]}

\* The same for movies; the failing entry raises when its rating is read.
MovieFeedEntries ==
    {MovieEntry(1, 2022), MovieEntry(1, 2023), MovieEntry(2, 2023),
     MovieEntry(3, 2023),
     [MovieEntry(2, 2023) EXCEPT !.rating = Raises],
     [MovieEntry(1, 2023) EXCEPT !.type = "clip"]}

InitRecent ==
    /\ sections = <<>>
    /\ account = Unauthorized
    /\ data_recorder = NoneV
    /\ \E op \in {"recent_shows", "recent_movies"} :
          /\ call \in {RecentCall(op, username, limit) :
                           username \in Usernames, limit \in 1..MaxLimit}
          /\ feed \in {Raises}
                \cup {Val(f) : f \in SeqsUpTo(IF op = "recent_shows"
                                               THEN EpisodeFeedEntries
                                               ELSE MovieFeedEntries, MaxFeed)}
    /\ InitLocals

SpecRecent == InitRecent /\ [][NextRecent]_vars

\* The entries the history request of the call returned.
Fetched ==
    IF feed.tag = "raise" THEN <<>>
    ELSE Take(feed.v, QueryLimit(call.op, call.limit))

\* The entry is of the operation's type and is processed without an
\* exception.
EntryOk(entry) == entry.type = EntryType(call.op) /\ ~EntryRaises(call.op, entry)

EntryDict(entry) ==
    IF call.op = "recent_shows" THEN RecentShowDict(entry) ELSE RecentMovieDict(entry)

\* The show title (movie title) of a returned entry; titles stand for keys.
ResultTitle(r) == IF call.op = "recent_shows" THEN r.show_title ELSE r.title

\* r[a..] is a subsequence of the dictionaries of the healthy entries of f[b..]
RECURSIVE IsSubFeed(_, _, _, _)
IsSubFeed(r, f, a, b) ==
    IF a > Len(r) THEN TRUE
    ELSE IF b > Len(f) THEN FALSE
    ELSE IF EntryOk(f[b]) /\ r[a] = EntryDict(f[b]) THEN IsSubFeed(r, f, a + 1, b + 1)
    ELSE IsSubFeed(r, f, a, b + 1)

\* The keys of the fetched entries that are processed without an exception.
HealthyKeys == {EntryKey(call.op, Fetched[k]) : k \in {j \in 1..Len(Fetched) : EntryOk(Fetched[j])}}

\* C15: for every limit >= 1 and every history feed the recent-activity
\* queries return at most limit entries, no two of the same show (movie), in
\* the relative order of the feed; when the fetched feed holds at least limit
\* distinct titles whose entries dereference without error, exactly limit
\* entries are returned.
C15_RecentLimitDistinctOrdered ==
    (Done /\ IsRecent) =>
        /\ Len(result) <= call.limit
        /\ \A a, b \in 1..Len(result) :
              a # b => ResultTitle(result[a]) # ResultTitle(result[b])
        /\ IsSubFeed(result, Fetched, 1, 1)
        /\ Cardinality(HealthyKeys) >= call.limit => Len(result) = call.limit

\* Scenario D with the feed of the model: limit 2, four fetched entries of
\* three shows, the first show twice: two results, of the first two shows.
C15_Witness ==
    /\ Done /\ call.op = "recent_shows" /\ call.limit = 2
    /\ Len(Fetched) = 4
    /\ Cardinality(HealthyKeys) = 3
    /\ EntryOk(Fetched[1]) /\ EntryOk(Fetched[2])
    /\ EntryKey(call.op, Fetched[1]) = EntryKey(call.op, Fetched[2])
    /\ Len(result) = 2
    /\ result[1] = EntryDict(Fetched[1])
    /\ result[2] = EntryDict(Fetched[3])

\* C16: for each show in the result of get_recently_watched_shows the
\* returned entry has the greatest viewed_at among all fetched history
\* entries of that show, whatever order the server returned them in.
C16_MostRecentPerShow ==
    (Done /\ call.op = "recent_shows") =>
        \A a \in 1..Len(result) :
            \A k \in 1..Len(Fetched) :
                (EntryOk(Fetched[k])
                 /\ Fetched[k].show.v.title = result[a].show_title)
                    => Fetched[k].viewedAt.v <= result[a].viewed_at.v

\* C17: the recent-activity queries never raise; an entry whose dereference
\* fails is skipped alone and does not count toward limit, the other entries
\* being processed as if it were absent; a failure of the history fetch
\* yields an empty list.
C17_RecentFaultIsolation ==
    /\ IsRecent => pc # "raised"
    /\ (Done /\ IsRecent) =>
          /\ result = RecentLoop(call.op, SelectSeq(Fetched, EntryOk), 1, <<>>, {},
                                 call.limit)
          /\ feed.tag = "raise" => result = <<>>

\* A failing entry first, then entries of two titles: with limit 2 both are
\* returned.
C17_Witness ==
    /\ Done /\ IsRecent /\ call.limit = 2
    /\ Len(Fetched) = 3
    /\ Fetched[1].type = EntryType(call.op)
    /\ EntryRaises(call.op, Fetched[1])
    /\ Len(result) = 2

-----------------------------------------------------------------------------
\* PlexClient.get_available_users

\* str.strip() on the names of the model
Strip(name) == IF name = " " THEN "" ELSE name

\* `hasattr(user, attr) and user.attr and user.attr.strip()`
NonBlank(x) == IsVal(x) /\ x.v # "" /\ Strip(x.v) # ""

\* f"user_{user.id}"
IdName(id) == IF id = 7 THEN "user_7" ELSE "user_8"

\* str.strip('>') on the last part of str(user)
StripGt(part) ==
    CASE part = "dave>" -> "dave"
      [] part = ">" -> ""
      [] OTHER -> part

\* The identity of a shared user (lines 83-100): username, then title, then
\* id, then name; None when the user has none of them.
UserId(user) ==
    IF NonBlank(user.username) THEN Val(user.username.v)
    ELSE IF NonBlank(user.title) THEN Val(user.title.v)
    ELSE IF IsVal(user.id) /\ user.id.v # 0 THEN Val(IdName(user.id.v))
    ELSE IF NonBlank(user.name) THEN Val(user.name.v)
    ELSE NoneV

\* The name taken from str(user) as last resort (lines 113-121); user.str is
\* str(user).split(':').
ParsedName(user) ==
    IF Len(user.str) >= 3 /\ StripGt(user.str[3]) # ""
    THEN <<StripGt(user.str[3])>> ELSE <<>>

\* `for user in all_users` (lines 81-121)
RECURSIVE SharedUsers(_, _)
SharedUsers(all_users, k) ==
    IF k > Len(all_users) THEN <<>>
    ELSE (IF IsVal(UserId(all_users[k])) THEN <<UserId(all_users[k]).v>>
          ELSE ParsedName(all_users[k]))
         \o SharedUsers(all_users, k + 1)

\* `for user in home_users` (lines 128-131)
RECURSIVE HomeTitles(_, _)
HomeTitles(home_users, k) ==
    IF k > Len(home_users) THEN <<>>
    ELSE (IF NonBlank(home_users[k].title) THEN <<home_users[k].title.v>> ELSE <<>>)
         \o HomeTitles(home_users, k + 1)

\* The managed users (lines 124-133): none when the account has no
\* homeUsers or when the call raises.
HomeUsers(acct) ==
    IF ~IsVal(acct.homeUsers) THEN <<>> ELSE HomeTitles(acct.homeUsers.v, 1)

\* The server owner (lines 73-75)
OwnerName(acct) ==
    IF NonBlank(acct.username) /\ acct.username.v # "admin"
    THEN <<acct.username.v>> ELSE <<>>

\* Position of a name in Python's string order.
NameRank(name) ==
    CASE name = "" -> 0
      [] name = " " -> 1
      [] name = "admin" -> 2
      [] name = "alice" -> 3
      [] name = "bob" -> 4
      [] name = "carol" -> 5
      [] name = "dave" -> 6
      [] name = "user_7" -> 7
      [] name = "user_8" -> 8

RECURSIVE SortedNames(_)
SortedNames(S) ==
    IF S = {} THEN <<>>
    ELSE LET m == CHOOSE x \in S : \A y \in S : NameRank(x) <= NameRank(y)
         IN <<m>> \o SortedNames(S \ {m})

\* `sorted(set(filter(None, users)))` (line 144)
UniqueUsers(users) == SortedNames({users[k] : k \in 1..Len(users)} \ {""})

\* get_available_users with Unauthorized handled like any other exception.
get_available_users_UnauthorizedEmpty(acct) ==
    IF ~IsVal(acct) THEN <<>>
    ELSE IF ~HasAttr(acct.v.username) THEN <<>>
    ELSE IF ~IsVal(acct.v.users) THEN <<>>
    ELSE UniqueUsers(<<"admin">> \o OwnerName(acct.v)
                     \o SharedUsers(acct.v.users.v, 1) \o HomeUsers(acct.v))

\* get_available_users as a function of what server.myPlexAccount() answers.
\* Unauthorized from myPlexAccount() or account.users() keeps what was
\* collected (line 135); any other exception returns [] (lines 140-142).
get_available_users(acct) ==
    IF acct.tag = "unauthorized" THEN UniqueUsers(<<"admin">>)
    ELSE IF acct.tag = "raise" THEN <<>>
    ELSE IF ~HasAttr(acct.v.username) THEN <<>>
    ELSE IF acct.v.users.tag = "unauthorized"
    THEN UniqueUsers(<<"admin">> \o OwnerName(acct.v))
    ELSE IF acct.v.users.tag = "raise" THEN <<>>
    ELSE UniqueUsers(<<"admin">> \o OwnerName(acct.v)
                     \o SharedUsers(acct.v.users.v, 1) \o HomeUsers(acct.v))

CallAvailableUsers ==
    /\ pc = "idle" /\ call.op = "users"
    /\ result' = get_available_users(account)
    /\ pc' = "done"
    /\ UNCHANGED <<requests, frame, returned, sections, feed, account, data_recorder, seen, call, all_items, i, stats>>

NextUsers == CallAvailableUsers

SharedUser(username, title, id, name, str) ==
    [username |-> username, title |-> title, id |-> id, name |-> name, str |-> str]

\* Shared users known by username, title, id or name, one whose name is
\* only in str(user), one with no name at all, and one called admin.
SharedUserKinds ==
    {SharedUser(Val("alice"), Val("Alice"), Val(1), Absent, <<"<MyPlexUser", "1", "alice>">>),
     SharedUser(Val(""), Val("bob"), Val(2), Absent, <<"<MyPlexUser", "2", "bob>">>),
     SharedUser(Absent, Val(" "), Val(7), Absent, <<"<MyPlexUser", "7", ">">>),
     SharedUser(NoneV, NoneV, NoneV, Val("carol"), <<"<MyPlexUser", "carol>">>),
     SharedUser(NoneV, NoneV, NoneV, NoneV, <<"<MyPlexUser", "9", "dave>">>),
     SharedUser(NoneV, Val(""), Val(0), Val(" "), <<"<MyPlexUser", "0", ">">>),
     SharedUser(Val("admin"), NoneV, NoneV, NoneV, <<"<MyPlexUser", "3", "admin>">>)}

HomeUserKinds == {[title |-> Val("alice")], [title |-> Val("")], [title |-> Absent]}

Accounts ==
    {Unauthorized, Raises}
    \cup {Val(a) : a \in
            [username : {Absent, NoneV, Val(""), Val(" "), Val("admin"), Val("bob")},
             users : {Unauthorized, Raises}
                     \cup {Val(u) : u \in SeqsUpTo(SharedUserKinds, MaxUsers)},
             homeUsers : {Absent, Raises}
                         \cup {Val(h) : h \in SeqsUpTo(HomeUserKinds, 1)}]}

InitUsers ==
    /\ sections = <<>>
    /\ feed = Val(<<>>)
    /\ account \in Accounts
    /\ data_recorder = NoneV
    /\ call = [op |-> "users", caller |-> "client"]
    /\ InitLocals

SpecUsers == InitUsers /\ [][NextUsers]_vars

\* C18: get_available_users never raises and returns a list without
\* duplicates and without empty names; when server.myPlexAccount() is
\* unauthorized the result is exactly ["admin"], and when it fails with any
\* other exception the result is the empty list.
C18_AvailableUsers ==
    /\ call.op = "users" => pc # "raised"
    /\ (Done /\ call.op = "users") =>
          /\ \A a, b \in 1..Len(result) : a # b => result[a] # result[b]
          /\ \A a \in 1..Len(result) : result[a] # ""
          /\ account.tag = "unauthorized" => result = <<"admin">>
          /\ account.tag = "raise" => result = <<>>

\* An account whose owner and shared user have the same name and whose
\* other shared user has an empty username: each name is returned once.
C18_Witness ==
    /\ Done /\ call.op = "users"
    /\ IsVal(account)
    /\ account.v.username = Val("bob")
    /\ IsVal(account.v.users) /\ Len(account.v.users.v) = 2
    /\ account.v.users.v[1].username = Val("")
    /\ account.v.users.v[2].username = Val("admin")
    /\ result = <<"admin", "bob">>

-----------------------------------------------------------------------------
\* Several queries on one client (cli.py, run: get_media_statistics and then
\* get_recently_watched on the same client).

\* The caller keeps the returned list and makes another call.
NextCall ==
    /\ pc = "done" /\ Len(returned) < MaxCalls
    /\ returned' = Append(returned, [call |-> call, result |-> result])
    /\ \E c \in {Call("shows", "client", NoUser, TRUE, FALSE, "title"),
                 Call("movies", "client", NoUser, TRUE, FALSE, "title"),
                 RecentCall("recent_shows", NoUser, 1),
                 RecentCall("recent_movies", NoUser, 1),
                 [op |-> "users", caller |-> "client"]} : call' = c
    /\ pc' = "idle"
    /\ UNCHANGED <<requests, frame, sections, feed, account, data_recorder, all_items, i, stats, seen, result>>

NextSession ==
    \/ FetchShows
    \/ FetchMovies
    \/ ProcessShow
    \/ ProcessMovie
    \/ ReturnShows
    \/ ReturnMovies
    \/ FetchRecent
    \/ ProcessEntry
    \/ ReturnRecent
    \/ CallAvailableUsers
    \/ NextCall

SessionShows ==
    [kind : {"show"}, title : {"A"}, year : {Val(2020)}, rating : {Val(8)},
     episodes : {Val(<<WatchedEpisode, UnwatchedEpisode>>), Val(<<UnwatchedEpisode>>)},
     history : {Val(<<>>)}]

SessionMovies ==
    {MovieSignals(Val(7200000), Val(0), Val(2), Val(TRUE)),
     MovieSignals(Val(7200000), Val(3600000), Val(0), Val(FALSE))}

InitSession ==
    /\ sections \in Catalog(SessionShows \cup SessionMovies, {0, 2})
    /\ feed \in {Raises, Val(<<>>),
                 Val(<<EpisodeEntry(1, 2023), MovieEntry(1, 2023), EpisodeEntry(2, 2022)>>)}
    /\ account \in {Unauthorized, Val([username |-> Val("bob"), users |-> Val(<<>>),
                                       homeUsers |-> Absent])}
    /\ data_recorder \in {NoneV, Val(<<>>)}
    /\ call \in {Call("shows", "client", NoUser, TRUE, FALSE, "title"),
                 Call("movies", "client", NoUser, TRUE, FALSE, "title"),
                 RecentCall("recent_shows", NoUser, 1),
                 RecentCall("recent_movies", NoUser, 1),
                 [op |-> "users", caller |-> "client"]}
    /\ InitLocals

SpecSession == InitSession /\ [][NextSession]_vars

IsBulk(c) == c.op \in {"shows", "movies", "recent_shows", "recent_movies"}

\* The call is a bulk fetch that obtained a list from the server: the
\* history request did not raise, a library section of the type exists.
FetchedAList(c) ==
    /\ IsBulk(c)
    /\ IF c.op \in {"recent_shows", "recent_movies"} THEN feed.tag # "raise"
       ELSE HasSection(sections, IF c.op = "shows" THEN "show" ELSE "movie")

\* The bulk fetches completed before the running call.
BulkReturned == SelectSeq(returned, LAMBDA r : FetchedAList(r.call))

\* The data_type tag of the running call.
CallDataType ==
    IF IsRecent THEN RecentDataType(call.op) ELSE DataType(CallType)

\* The complete list the running call fetched.
CallFetched ==
    IF IsRecent THEN Fetched ELSE AllOfType(sections, CallType, 1)

\* C19: with a recorder configured, each bulk fetch invokes the recorder
\* hook exactly once per call, with the operation's data_type tag and the
\* complete unmodified fetched list, before the first per-title computation
\* or per-entry processing: from the start of the loop to the return, the
\* recorder holds one record per bulk fetch made so far and the last one is
\* that of the running call.
C19_RecorderOncePerFetch ==
    (/\ IsVal(data_recorder)
     /\ FetchedAList(call)
     /\ pc \in {"loop", "recent", "done"}) =>
        /\ Len(data_recorder.v) = Len(BulkReturned) + 1
        /\ data_recorder.v[Len(data_recorder.v)]
              = [data_type |-> CallDataType, data |-> CallFetched]

\* C20: calling get_all_show_statistics (get_all_movie_statistics) twice with
\* the same arguments over unchanged server data returns identical lists,
\* whatever other query operations ran in between: every call returns what
\* the operation computes from the server data and its arguments alone, and
\* equal calls have returned equal lists.
C20_AggregationIdempotent ==
    /\ (Done /\ call.op \in {"shows", "movies"}) => result = RunResult(sections)
    /\ \A a \in 1..Len(returned) :
          returned[a].call.op \in {"shows", "movies"} =>
              /\ \A b \in 1..Len(returned) :
                    returned[b].call = returned[a].call
                        => returned[b].result = returned[a].result
              /\ (Done /\ call = returned[a].call) => result = returned[a].result

\* get_all_show_statistics, then a recent-activity query, then
\* get_all_show_statistics again with the same arguments: the same non-empty
\* list.
C20_Witness ==
    /\ Done
    /\ Len(returned) = 2
    /\ returned[1].call.op = "shows"
    /\ returned[2].call.op = "recent_shows"
    /\ returned[2].result # <<>>
    /\ call = returned[1].call
    /\ Len(result) = 2
    /\ result = returned[1].result

-----------------------------------------------------------------------------
\* _get_show_statistics step by step: show.episodes(), the history request,
\* one step per episode, and the result.

\* The locals of _get_show_statistics after line 280.
NewFrame(show, username, episodes) ==
    [show |-> show,
     username |-> username,
     episodes |-> episodes,
     show_history |-> NoneV,
     k |-> 1,
     watched |-> FALSE,
     watched_episodes |-> 0,
     total_watch_time |-> Zero,
     last_watched_date |-> NoneV]

\* Lines 270-280, and the except branch when show.episodes() raises.
EnterShow ==
    /\ pc = "idle" /\ call.op = "show_steps"
    /\ IF TheTitle.episodes.tag = "raise"
       THEN /\ result' = <<ShowErrorStat(TheTitle, "Error getting episodes")>>
            /\ pc' = "done"
            /\ frame' = frame
       ELSE /\ frame' = Val(NewFrame(TheTitle, call.username, TheTitle.episodes.v))
            /\ pc' = "history"
            /\ result' = result
    /\ UNCHANGED <<requests, returned, sections, feed, account, data_recorder, seen, call, all_items, i, stats>>

\* RequestShowHistory that asks for the history whether or not a username is
\* given.
RequestShowHistory_Always ==
    /\ pc = "history"
    /\ requests' = Append(requests, ShowHistoryRequest(frame.v.show,
                                                       frame.v.username))
    /\ frame' = Val([frame.v EXCEPT !.show_history =
                        IF frame.v.show.history.tag = "raise" THEN NoneV
                        ELSE Val(Take(frame.v.show.history.v, ShowHistoryMax))])
    /\ pc' = "episodes"
    /\ UNCHANGED <<returned, sections, feed, account, data_recorder, seen, call, all_items, i, stats, result>>

\* Lines 282-290: with a username, one request for the show's history inside
\* try/except.
RequestShowHistory ==
    /\ pc = "history"
    /\ IF frame.v.username # NoUser
       THEN /\ requests' = Append(requests, ShowHistoryRequest(frame.v.show,
                                                               frame.v.username))
            /\ frame' = Val([frame.v EXCEPT !.show_history =
                                FetchShowHistory(frame.v.show, frame.v.username)])
       ELSE UNCHANGED <<requests, frame>>
    /\ pc' = "episodes"
    /\ UNCHANGED <<returned, sections, feed, account, data_recorder, seen, call, all_items, i, stats, result>>

\* The accumulators of the frame, as EpisodeStep takes them.
FrameAcc(f) ==
    [watched_episodes |-> f.watched_episodes,
     total_watch_time |-> f.total_watch_time,
     last_watched_date |-> f.last_watched_date]

\* ClassifyEpisode with one history request per episode.
ClassifyEpisode_Requests ==
    /\ pc = "episodes" /\ frame.v.k <= Len(frame.v.episodes)
    /\ LET f == frame.v
           acc == EpisodeStep(FrameAcc(f), f.episodes[f.k], f.username,
                              f.show_history)
       IN frame' = Val([f EXCEPT !.k = f.k + 1,
                                 !.watched = acc.watched_episodes # f.watched_episodes,
                                 !.watched_episodes = acc.watched_episodes,
                                 !.total_watch_time = acc.total_watch_time,
                                 !.last_watched_date = acc.last_watched_date])
    /\ requests' = IF frame.v.username # NoUser
                   THEN Append(requests, ShowHistoryRequest(frame.v.show,
                                                            frame.v.username))
                   ELSE requests
    /\ UNCHANGED <<returned, sections, feed, account, data_recorder, seen, pc, call, all_items, i, stats, result>>

\* One iteration of `for episode in episodes` (lines 293-339); `watched` is
\* the local of that iteration, which line 339 adds to watched_episodes.
ClassifyEpisode ==
    /\ pc = "episodes" /\ frame.v.k <= Len(frame.v.episodes)
    /\ LET f == frame.v
           acc == EpisodeStep(FrameAcc(f), f.episodes[f.k], f.username,
                              f.show_history)
       IN frame' = Val([f EXCEPT !.k = f.k + 1,
                                 !.watched = acc.watched_episodes # f.watched_episodes,
                                 !.watched_episodes = acc.watched_episodes,
                                 !.total_watch_time = acc.total_watch_time,
                                 !.last_watched_date = acc.last_watched_date])
    /\ UNCHANGED <<requests, returned, sections, feed, account, data_recorder, seen, pc, call, all_items, i, stats, result>>

\* Lines 341-366: the second scan of the history, the completion percentage
\* and the dictionary.
FinishShow ==
    /\ pc = "episodes" /\ frame.v.k > Len(frame.v.episodes)
    /\ LET f == frame.v
           total_episodes == Len(f.episodes)
           last == IF ~IsVal(f.last_watched_date) /\ HistoryTruthy(f.show_history)
                   THEN MaxViewedAt(f.show_history.v, 1, f.last_watched_date)
                   ELSE f.last_watched_date
       IN result' = <<[title |-> f.show.title,
                       total_episodes |-> total_episodes,
                       watched_episodes |-> f.watched_episodes,
                       unwatched_episodes |-> total_episodes - f.watched_episodes,
                       completion_percentage |->
                           ShowCompletion(f.watched_episodes, total_episodes),
                       total_watch_time_minutes |-> f.total_watch_time,
                       last_watched |-> last,
                       year |-> f.show.year,
                       rating |-> f.show.rating,
                       key |-> f.show.key]>>
    /\ pc' = "done"
    /\ frame' = NoneV
    /\ UNCHANGED <<requests, returned, sections, feed, account, data_recorder, seen, call, all_items, i, stats>>

NextEpisodes == EnterShow \/ RequestShowHistory \/ ClassifyEpisode \/ FinishShow

\* An episode of season `season` with number `index` in it.
SeasonEpisode(key, season, index, sig) ==
    [viewCount |-> sig.viewCount,
     isWatched |-> sig.isWatched,
     duration |-> sig.duration,
     grandparentRatingKey |-> key,
     parentIndex |-> season,
     index |-> index]

Signal(viewCount, isWatched, duration) ==
    [viewCount |-> viewCount, isWatched |-> isWatched, duration |-> duration]

\* View count over flag (both ways), flag alone (both ways), neither signal
\* (with and without a duration), flag with a missing duration.
StepSignals ==
    {Signal(Val(2), Val(FALSE), Val(1800000)),
     Signal(Val(0), Val(TRUE), Val(1800000)),
     Signal(NoneV, Val(TRUE), Val(1800000)),
     Signal(NoneV, Val(FALSE), Val(1800000)),
     Signal(Absent, Absent, Val(1800000)),
     Signal(NoneV, Absent, NoneV),
     Signal(Absent, Val(TRUE), NoneV)}

\* (season, number) of the episodes of a show, in the order of show.episodes().
EpisodeNumbers == <<<<1, 1>>, <<1, 2>>, <<2, 1>>, <<2, 2>>>>

\* The shows' episode lists: the first n episodes, or the first and the third
\* (one episode per season).
EpisodeLists(key) ==
    UNION {{[k \in 1..n |-> SeasonEpisode(key, EpisodeNumbers[pos[k]][1],
                                           EpisodeNumbers[pos[k]][2], sig[k])] :
               sig \in [1..n -> StepSignals]} :
           n \in 0..MaxEpisodes,
           pos \in {<<1, 2, 3, 4>>, <<1, 3, 2, 4>>}}

\* Entries of the show's history: season, number, viewed_at.
WindowEntries(key) ==
    {[grandparentRatingKey |-> key, parentIndex |-> e[1], index |-> e[2],
      viewedAt |-> e[3]] :
        e \in {<<1, 1, Val(2022)>>, <<2, 1, Val(2023)>>, <<1, 2, Val(2024)>>,
               <<1, 1, NoneV>>}}

\* A history longer than the 50 entries the request asks for; the entry past
\* the limit is the most recent one.
LongHistory(key) ==
    [k \in 1..(ShowHistoryMax + 1) |->
        [grandparentRatingKey |-> key, parentIndex |-> 1, index |-> 1,
         viewedAt |-> Val(IF k > ShowHistoryMax THEN 2025 ELSE 2020)]]

\* Scenario A: 10 episodes of 30 minutes, 5 of them watched.
ScenarioAEpisodes(key) ==
    [k \in 1..10 |->
        SeasonEpisode(key, 1, k,
                      Signal(Val(IF k <= 5 THEN 1 ELSE 0), Val(k <= 5),
                             Val(1800000)))]

StepShow(key, episodes, history) ==
    [title |-> "A", year |-> Val(2020), rating |-> Val(8), key |-> key,
     episodes |-> episodes, history |-> history]

StepShows ==
    {StepShow(1, episodes, history) :
        episodes \in {Raises} \cup {Val(e) : e \in EpisodeLists(1)},
        history \in {Raises} \cup {Val(h) : h \in SeqsUpTo(WindowEntries(1), MaxWindow)}}
    \cup {StepShow(1, Val(ScenarioAEpisodes(1)), Val(<<>>)),
          StepShow(1, Val(<<SeasonEpisode(1, 1, 1, Signal(Absent, Absent, Val(1800000)))>>),
                   Val(LongHistory(1)))}

InitEpisodes ==
    /\ \E show \in StepShows :
          sections = <<[type |-> "show", items |-> <<show>>]>>
    /\ \E username \in Usernames :
          call = Call("show_steps", "client", username, FALSE, FALSE, "title")
    /\ InitPlain

SpecEpisodes == InitEpisodes /\ [][NextEpisodes]_vars

\* The steps compute what _get_show_statistics computes.
StepsAgree ==
    (pc = "done" /\ call.op = "show_steps") =>
        /\ result = <<_get_show_statistics(TheTitle, call.username)>>
        /\ requests = ShowHistoryRequests(TheTitle, call.username)

-----------------------------------------------------------------------------
\* Properties of the episode classification (SpecEpisodes).

\* The episode the last ClassifyEpisode step was about.
Classified == pc = "episodes" /\ frame.v.k > 1
LastEpisode == frame.v.episodes[frame.v.k - 1]

\* The show's history as the server answers the bounded request; empty when
\* the request raises.
ShowWindow ==
    IF TheTitle.history.tag = "raise" THEN <<>>
    ELSE Take(TheTitle.history.v, ShowHistoryMax)

SameEpisodeNumber(entry, episode) ==
    /\ entry.grandparentRatingKey = episode.grandparentRatingKey
    /\ entry.index = episode.index

SameSeasonAndNumber(entry, episode) ==
    /\ SameEpisodeNumber(entry, episode)
    /\ entry.parentIndex = episode.parentIndex

\* C21: with a username, the watched classification of an episode is its view
\* count > 0 when the view count is present and non-null; otherwise its
\* watched flag when the flag is present; otherwise a match in the show's
\* history window.  A present signal is never overridden by a lower one.
C21_SignalPriority ==
    (Classified /\ call.username # NoUser) =>
        IF IsVal(LastEpisode.viewCount)
        THEN frame.v.watched = (LastEpisode.viewCount.v > 0)
        ELSE IF HasAttr(LastEpisode.isWatched)
        THEN frame.v.watched = LastEpisode.isWatched.v
        ELSE /\ frame.v.watched =>
                   \E k \in 1..Len(ShowWindow) :
                       SameEpisodeNumber(ShowWindow[k], LastEpisode)
             /\ (\E k \in 1..Len(ShowWindow) :
                     SameSeasonAndNumber(ShowWindow[k], LastEpisode))
                   => frame.v.watched

\* An episode with view count 0, a watched flag of True and an entry of its
\* own in the history window, classified unwatched.
C21_Witness ==
    /\ Classified /\ call.username # NoUser
    /\ LastEpisode.viewCount = Val(0)
    /\ LastEpisode.isWatched = Val(TRUE)
    /\ \E k \in 1..Len(ShowWindow) : SameSeasonAndNumber(ShowWindow[k], LastEpisode)
    /\ ~frame.v.watched

\* Neither a view count nor a watched flag: the episode is left to the
\* history fallback.
LeftToHistory(episode) ==
    ~IsVal(episode.viewCount) /\ ~HasAttr(episode.isWatched)

\* C22: the history fallback classifies an episode as watched only if some
\* entry of the show's history window belongs to the same show and has the
\* same season number and the same episode index; an entry with the same
\* episode index in another season never matches.
C22_FallbackMatchesSeason ==
    (Classified /\ call.username # NoUser /\ LeftToHistory(LastEpisode)
        /\ frame.v.watched) =>
        \E k \in 1..Len(ShowWindow) : SameSeasonAndNumber(ShowWindow[k], LastEpisode)

-----------------------------------------------------------------------------
\* Properties of the result of the stepwise computation (SpecEpisodes).

StepsReturned == pc = "done" /\ call.op = "show_steps"

MaxOf(S) ==
    IF S = {} THEN NoneV
    ELSE Val(CHOOSE x \in S : \A y \in S : y <= x)

\* The viewed_at values of the entries of a history window.
ViewedAts(h) == {h[k].viewedAt.v : k \in {j \in 1..Len(h) : IsVal(h[j].viewedAt)}}

\* C23: with a username and a successful computation, last_watched of a show
\* is the maximum viewed_at over all entries of the fetched history window
\* (null when the window is empty, was not fetched or has no viewed_at), also
\* when some episodes were matched through the history fallback.
C23_ShowLastWatchedIsMax ==
    (StepsReturned /\ call.username # NoUser /\ HasNoError(TheStat)) =>
        TheStat.last_watched = MaxOf(ViewedAts(ShowWindow))

-----------------------------------------------------------------------------
\* Properties of _get_movie_statistics (SpecStat).

\* The movie's history as the server answers the bounded request, for the
\* user of the call or global; empty when the request raises.
MovieWindow ==
    LET h == IF call.username # NoUser THEN TheTitle.historyUser
             ELSE TheTitle.historyGlobal
    IN IF h.tag = "raise" THEN <<>> ELSE Take(h.v, MovieHistoryMax)

\* C24: last_watched of a movie is the maximum viewed_at over its bounded
\* history window (of the user if one is given, global otherwise), null when
\* the window is empty or the fetch fails, whether or not the movie is
\* classified watched.
C24_MovieLastWatchedIsMax ==
    (MovieStatReturned /\ HasNoError(TheStat)) =>
        TheStat.last_watched = MaxOf(ViewedAts(MovieWindow))

-----------------------------------------------------------------------------
\* The history requests of _get_show_statistics (SpecEpisodes).

\* One request for the show and the user of the call, bounded to 50 entries.
OneBoundedRequest ==
    requests = <<[key |-> TheTitle.key, username |-> call.username,
                  maxresults |-> 50]>>

\* The request is made once the episode loop is reached, and is still the
\* only one when the call returns.
RequestedUpFront ==
    /\ pc = "episodes" => OneBoundedRequest
    /\ pc = "done" => OneBoundedRequest

\* C25 as stated: with a username, _get_show_statistics issues exactly one
\* history request per show, bounded to 50 entries, before the first episode
\* is classified, whatever the number of episodes.
C25_OneHistoryRequest ==
    (call.op = "show_steps" /\ call.username # NoUser) => RequestedUpFront

\* C25, amended: with a username and a show whose show.episodes() succeeds,
\* _get_show_statistics issues exactly one history request, bounded to 50
\* entries, before the first episode is classified, whatever the number of
\* episodes, and the window it works on has at most 50 entries; when
\* show.episodes() raises no history request is made.
C25_OneHistoryRequestAfterEpisodes ==
    (call.op = "show_steps" /\ call.username # NoUser) =>
        IF TheTitle.episodes.tag = "raise"
        THEN requests = <<>>
        ELSE /\ RequestedUpFront
             /\ (pc = "episodes" /\ IsVal(frame.v.show_history))
                   => Len(frame.v.show_history.v) <= 50

\* Scenario A's show of 10 episodes, before its first episode is classified:
\* the one request has been made.
C25_Witness ==
    /\ pc = "episodes" /\ call.username # NoUser
    /\ Len(frame.v.episodes) = 10
    /\ frame.v.k = 1
    /\ OneBoundedRequest

-----------------------------------------------------------------------------
\* The watch time of a show (SpecEpisodes).

\* duration_ms / 60000 of an episode, 0 when the duration is missing.
EpisodeMinutes(episode) ==
    IF IsVal(episode.duration) THEN Frac(episode.duration.v, 60000) ELSE Zero

IsScenarioA ==
    /\ IsVal(TheTitle.episodes)
    /\ TheTitle.episodes.v = ScenarioAEpisodes(TheTitle.key)

\* C26: total_watch_time_minutes of a show is the sum of duration_ms / 60000
\* over exactly the episodes counted in watched_episodes, each counted once
\* and a missing duration counting 0, with or without a username: both start
\* at 0, every episode step adds the episode's minutes exactly when it adds 1
\* to watched_episodes, and the result carries both.  Scenario A (10 episodes,
\* 5 watched, 30 minutes each) gives 5, 50.0 and 150.
C26_WatchTimeOfCountedEpisodes ==
    [][/\ (pc = "history" /\ pc' = "episodes") =>
              /\ frame'.v.watched_episodes = 0
              /\ frame'.v.total_watch_time = Zero
       /\ (pc = "episodes" /\ pc' = "episodes") =>
              LET episode == frame.v.episodes[frame.v.k]
                  counted == frame'.v.watched_episodes - frame.v.watched_episodes
              IN /\ counted \in {0, 1}
                 /\ frame'.v.total_watch_time =
                       FracAdd(frame.v.total_watch_time,
                               IF counted = 1 THEN EpisodeMinutes(episode)
                               ELSE Zero)
       /\ (pc = "episodes" /\ pc' = "done") =>
              /\ result'[1].watched_episodes = frame.v.watched_episodes
              /\ result'[1].total_watch_time_minutes = frame.v.total_watch_time
              /\ IsScenarioA =>
                    /\ result'[1].watched_episodes = 5
                    /\ result'[1].completion_percentage = Frac(50, 1)
                    /\ result'[1].total_watch_time_minutes = Frac(150, 1)
      ]_vars

\* Scenario A computed: 5 watched episodes, 50 percent, 150 minutes.
C26_Witness ==
    /\ StepsReturned /\ IsScenarioA
    /\ TheStat.watched_episodes = 5
    /\ TheStat.completion_percentage = Frac(50, 1)
    /\ TheStat.total_watch_time_minutes = Frac(150, 1)

-----------------------------------------------------------------------------
\* watched and watch_count of a movie (SpecStat).

\* C27: watch_count of a movie is its view count when one is present, with
\* watched iff the count > 0; without a view count, watched is the watched
\* flag (false if absent) and watch_count is 1 if watched and 0 otherwise.
\* Every MovieStatistic, failure records included, has watched <=>
\* watch_count > 0.
C27_WatchCountRule ==
    MovieStatReturned =>
        /\ TheStat.watched <=> TheStat.watch_count > 0
        /\ HasNoError(TheStat) =>
              IF IsVal(TheTitle.viewCount)
              THEN /\ TheStat.watch_count = TheTitle.viewCount.v
                   /\ TheStat.watched = (TheTitle.viewCount.v > 0)
              ELSE /\ TheStat.watched = (/\ HasAttr(TheTitle.isWatched)
                                          /\ TheTitle.isWatched.v)
                   /\ TheStat.watch_count = IF TheStat.watched THEN 1 ELSE 0

\* A movie with no view count and a watched flag of True: watch_count 1.
C27_Witness ==
    /\ MovieStatReturned /\ HasNoError(TheStat)
    /\ ~IsVal(TheTitle.viewCount)
    /\ TheTitle.isWatched = Val(TRUE)
    /\ TheStat.watched
    /\ TheStat.watch_count = 1

-----------------------------------------------------------------------------
\* The view offset of a movie (SpecStat).

\* The same movie with a view offset of 0.
WithZeroOffset(movie) == [movie EXCEPT !.viewOffset = Val(0)]

\* C28: a movie whose view-offset attribute is missing, or whose view-offset
\* read raises, gets view_offset = 0, carries no error field, and has the
\* duration_minutes, watched, watch_count, year and rating of the same movie
\* with a view offset of 0.
C28_ViewOffsetFaultConfined ==
    (/\ MovieStatReturned
     /\ TheTitle.viewOffset \in {Absent, Raises}
     /\ TheTitle.duration.tag # "raise") =>
        /\ TheStat.view_offset = 0
        /\ HasNoError(TheStat)
        /\ LET zero == _get_movie_statistics(WithZeroOffset(TheTitle), call.username)
           IN /\ TheStat.duration_minutes = zero.duration_minutes
              /\ TheStat.watched = zero.watched
              /\ TheStat.watch_count = zero.watch_count
              /\ TheStat.year = zero.year
              /\ TheStat.rating = zero.rating

-----------------------------------------------------------------------------
\* Failing history requests (SpecStat).

\* The history request the call makes for the title raises.
HistoryRequestRaises ==
    IF call.op = "show_stat"
    THEN call.username # NoUser /\ TheTitle.history.tag = "raise"
    ELSE IF call.username # NoUser THEN TheTitle.historyUser.tag = "raise"
    ELSE TheTitle.historyGlobal.tag = "raise"

\* The same title on a server that answers the history request with an empty
\* window.
WithEmptyHistory(title) ==
    IF call.op = "show_stat" THEN [title EXCEPT !.history = Val(<<>>)]
    ELSE IF call.username # NoUser THEN [title EXCEPT !.historyUser = Val(<<>>)]
    ELSE [title EXCEPT !.historyGlobal = Val(<<>>)]

StatWithEmptyHistory ==
    IF call.op = "show_stat"
    THEN _get_show_statistics(WithEmptyHistory(TheTitle), call.username)
    ELSE _get_movie_statistics(WithEmptyHistory(TheTitle), call.username)

\* C29: when the show-level or movie-level history request raises, the
\* title's statistic is the one computed with an empty history window: the
\* failure adds no error field and does not turn the title into a zeroed
\* failure record.
C29_HistoryFailureSwallowed ==
    (pc = "done" /\ HistoryRequestRaises) =>
        /\ TheStat = StatWithEmptyHistory
        /\ HasError(TheStat) => HasError(StatWithEmptyHistory)

\* A watched movie whose history request for the user raises: the record has
\* no error, keeps watched and its duration, and has no last_watched.
C29_Witness ==
    /\ MovieStatReturned /\ call.username # NoUser
    /\ TheTitle.historyUser = Raises
    /\ HasNoError(TheStat)
    /\ TheStat.watched
    /\ TheStat.duration_minutes = Frac(120, 1)
    /\ TheStat.last_watched = NoneV

-----------------------------------------------------------------------------
\* _get_show_statistics without a username (SpecEpisodes).

\* C30: without a username, _get_show_statistics never requests history,
\* every ShowStatistic it returns has last_watched = null whatever the
\* show's history holds, and an episode is watched by its view count (when
\* present and non-null) or else by its watched flag (false when absent).
C30_NoUserNoHistory ==
    (call.op = "show_steps" /\ call.username = NoUser) =>
        /\ requests = <<>>
        /\ StepsReturned => TheStat.last_watched = NoneV
        /\ Classified =>
              frame.v.watched =
                  IF IsVal(LastEpisode.viewCount) THEN LastEpisode.viewCount.v > 0
                  ELSE HasAttr(LastEpisode.isWatched) /\ LastEpisode.isWatched.v

\* A show whose only episode has no signal of its own and an entry in the
\* show's history, computed without a username: unwatched, no last_watched.
C30_Witness ==
    /\ StepsReturned /\ call.username = NoUser
    /\ HasNoError(TheStat)
    /\ TheStat.total_episodes = 1
    /\ LeftToHistory(TheTitle.episodes.v[1])
    /\ \E k \in 1..Len(ShowWindow) :
          /\ SameSeasonAndNumber(ShowWindow[k], TheTitle.episodes.v[1])
          /\ IsVal(ShowWindow[k].viewedAt)
    /\ TheStat.watched_episodes = 0
    /\ TheStat.last_watched = NoneV

====
